---- MODULE Spec2Model ----
(***************************************************************************)
(* Collaborative code editor: the RoomPage sync controller                 *)
(* (app/room/[roomId]/page.jsx), the CodeMirror wrapper                    *)
(* (components/code-editor.jsx) and the WebSocket hook (use-websocket).    *)
(*                                                                         *)
(* A client is a record; every handler of the source is an operator that   *)
(* maps a client record to the client record after the handler ran.  The   *)
(* messages a handler passed to the socket and the updateRoomCode calls it *)
(* made are logged in the fields `sent' and `persisted', which every       *)
(* action empties before it runs its handler.                              *)
(***************************************************************************)
EXTENDS Integers, Sequences, FiniteSets, TLC

VARIABLES
  cl,            \* client id -> client record (RoomPage + CodeEditor state)
  step,          \* name of the last action taken
  sinceEdit,     \* ms since the last user edit of client Me (capped)
  sinceSend,     \* ms since the last code-update sent by handleCodeChange
  lastEdit,      \* text of the last user edit of client Me
  lastSentCode,  \* text of the last code-update client Me transmitted
  nEdits,        \* user edits so far, per client
  nMsgs,         \* inbound sync messages injected so far
  chan,          \* <<from, to>> -> FIFO of relayed messages (peers)
  serverRoster,  \* roster held by the room server
  wsQueue,       \* presence messages on their way to client Me
  httpReq,       \* joinRoom requests of client Me on their way to the server
  httpResp,      \* joinRoom responses on their way to client Me
  lastCursor,    \* identity -> latest cursor-update applied for it
  cursorCount,   \* identity -> cursor-updates applied for it (capped at 2)
  joinedSeen,    \* names whose join client Me has processed
  departed,      \* names whose join and then leave client Me processed
  nPresence,     \* presence events produced so far
  delivered,     \* the message the message effect of client Me ran on last
  lastMove,      \* position of the last local cursor change and the
                 \* number of cursor changes in its throttle window
  langReq,       \* updateRoomLanguage calls of client Me awaiting their result
  langResult,    \* the updateRoomLanguage result client Me resumed on last
  editsAtLang,   \* nEdits[Me] when Me last sent a language-update, or -1
  runIn,         \* code, language and interpreter load outcome of the
                 \* last executeCode call
  runOut,        \* result the last executeCode call resolved with
  nOps,          \* operation name -> times client Me has started it
  ex,            \* the code executor: interpreter, output buffer, calls
  hook,          \* useWebSocket of client Me: arguments, sockets, state
  deco           \* the editor's remote cursor decorations and their input

vars == <<cl, step, sinceEdit, sinceSend, lastEdit, lastSentCode, nEdits,
          nMsgs, chan, serverRoster, wsQueue, httpReq, httpResp, lastCursor,
          cursorCount, joinedSeen, departed, nPresence, delivered, lastMove,
          langReq, langResult, editsAtLang, runIn, runOut, nOps, ex,
          hook, deco>>

langVars == <<langReq, langResult, editsAtLang>>
runVars == <<runIn, runOut, ex>>
ctlVars == <<lastMove, langVars, runVars, nOps, hook, deco>>

syncAux == <<sinceEdit, sinceSend, lastEdit, lastSentCode, nMsgs>>
rosterVars == <<serverRoster, wsQueue, httpReq, httpResp, lastCursor,
                cursorCount, joinedSeen, departed, nPresence>>

----------------------------------------------------------------------------
(* Bounds of the model *)

MaxEdits == 3
MaxMsgs == 2
MaxPeerEdits == 2
MaxPresence == 4

(* Program constants *)

CODE_PERSIST_DEBOUNCE_MS == 1000
CODE_WS_THROTTLE_MS == 50
CURSOR_WS_THROTTLE_MS == 100
TYPING_TIMEOUT_MS == 3000

Me == 1
Peer == 2
Clients == {Me, Peer}

(* Participants of the room: identities and their display names *)
Ids == {1, 2, 3}
Name(id) ==
  CASE id = 1 -> "User1"
    [] id = 2 -> "User2"
    [] OTHER -> "User3"
Positions == {10, 50}

NoText == "-"
Texts == {"a", "b"}
Languages == {"javascript", "python"}
getDefaultCode(language) ==
  CASE language = "javascript" -> "// js"
    [] language = "python" -> "# py"
    [] OTHER -> ""

(* Time the environment lets pass between two events: a short gap inside   *)
(* a throttle window, or a long pause.                                     *)
ShortDelays == {20}
LongDelays == {2000}

Min(a, b) == IF a < b THEN a ELSE b

----------------------------------------------------------------------------
(* Messages: { type, data?, username? } flattened to one record shape *)

(* hasData: the object has a `data' member *)
Msg(type) ==
  [type |-> type, code |-> NoText, language |-> NoText, username |-> NoText,
   oderId |-> 0, position |-> 0, isTyping |-> FALSE, hasData |-> TRUE]

NoMsg == Msg("none")

CodeUpdateMsg(code) == [Msg("code-update") EXCEPT !.code = code]
LanguageUpdateMsg(language, code) ==
  [Msg("language-update") EXCEPT !.language = language, !.code = code]
TypingStartMsg(username) == [Msg("typing-start") EXCEPT !.username = username]
TypingStopMsg(username) == [Msg("typing-stop") EXCEPT !.username = username]
JoinMsg(username) == [Msg("join") EXCEPT !.username = username]
LeaveMsg(username) == [Msg("leave") EXCEPT !.username = username]
CursorUpdateMsg(oderId, username, position) ==
  [Msg("cursor-update") EXCEPT !.oderId = oderId, !.username = username,
                               !.position = position]
SelectionUpdateMsg(oderId, username, position) ==
  [Msg("selection-update") EXCEPT !.oderId = oderId, !.username = username,
                                  !.position = position]
ParticipantTypingMsg(username, isTyping) ==
  [Msg("participant-typing") EXCEPT !.username = username,
                                    !.isTyping = isTyping]

(* The data object of a cursor-update, as stored in remoteCursors *)
CursorData(m) ==
  [oderId |-> m.oderId, username |-> m.username, position |-> m.position]

(* A roster entry as the server returns it to client c *)
Participant(id, c) ==
  [id |-> id, username |-> Name(id), isCurrentUser |-> (id = c),
   isTyping |-> FALSE]

----------------------------------------------------------------------------
(* use-websocket: sendMessage *)

(* Variant of sendMessage that does not test the state of the socket *)
sendMessage_anyState(s, message) == [s EXCEPT !.sent = Append(@, message)]

sendMessage(s, message) ==
  IF s.readyState = "OPEN"
  THEN [s EXCEPT !.sent = Append(@, message)]
  ELSE s

(* use-websocket: ws.onopen and ws.onclose, run when the socket has       *)
(* changed its readyState                                                  *)
wsOnOpen(s) == [s EXCEPT !.readyState = "OPEN", !.isConnected = TRUE]
wsOnClose(s) == [s EXCEPT !.readyState = "CLOSED", !.isConnected = FALSE]

(* api: updateRoomCode is a fire-and-forget call; the call is logged *)
updateRoomCode(s, code) == [s EXCEPT !.persisted = Append(@, code)]

----------------------------------------------------------------------------
(* Timers.  A pending timer is a record; `cur' says that the ref of its    *)
(* kind still holds its id.  refs[kind] is "null" or "set": a ref keeps    *)
(* the id of a timer that has fired unless the callback nulls it.          *)

TimerKinds == {"typing", "code", "persist", "cursor"}

setTimeout(s, kind, ms, arg) ==
  [s EXCEPT
     !.timers = {[t EXCEPT !.cur = IF t.kind = kind THEN FALSE ELSE t.cur] :
                   t \in s.timers}
                \cup {[kind |-> kind, rem |-> ms, arg |-> arg, cur |-> TRUE]},
     !.refs[kind] = "set"]

(* Variant of clearTimeout that cancels nothing *)
clearTimeout_nothing(s, kind) == s

clearTimeout(s, kind) ==
  [s EXCEPT !.timers = {t \in s.timers : ~(t.kind = kind /\ t.cur)}]

PendingTimers(s, kind) == {t \in s.timers : t.kind = kind}

----------------------------------------------------------------------------
(* RoomPage.handleCodeChange.  isTyping is the value of the isTyping state *)
(* captured by the closure that is called.                                 *)

handleCodeChange(s, newCode, isTyping) ==
  LET s0 == [s EXCEPT !.code = newCode] IN
  IF ~s0.isRemoteUpdateRef
  THEN
    LET s1 == IF ~isTyping
              THEN sendMessage([s0 EXCEPT !.isTyping = TRUE],
                               TypingStartMsg(s0.username))
              ELSE s0
        s2 == IF s1.refs["typing"] # "null" THEN clearTimeout(s1, "typing")
              ELSE s1
        s3 == setTimeout(s2, "typing", TYPING_TIMEOUT_MS, NoText)
        s4 == [s3 EXCEPT !.pendingCodeRef = newCode]
        s5 == IF s4.refs["code"] = "null"
              THEN setTimeout(sendMessage(s4, CodeUpdateMsg(newCode)),
                              "code", CODE_WS_THROTTLE_MS, NoText)
              ELSE s4
        s6 == IF s5.refs["persist"] # "null" THEN clearTimeout(s5, "persist")
              ELSE s5
        s7 == setTimeout(s6, "persist", CODE_PERSIST_DEBOUNCE_MS, newCode)
    IN [s7 EXCEPT !.isRemoteUpdateRef = FALSE]
  ELSE [s0 EXCEPT !.isRemoteUpdateRef = FALSE]

(* The timer callbacks created by handleCodeChange *)

typingTimeoutCallback(s) ==
  sendMessage([s EXCEPT !.isTyping = FALSE], TypingStopMsg(s.username))

(* Variant of codeThrottleCallback that keeps the pending value *)
codeThrottleCallback_keepPending(s) ==
  LET s1 == IF s.pendingCodeRef # NoText
            THEN sendMessage(s, CodeUpdateMsg(s.pendingCodeRef))
            ELSE s
  IN [s1 EXCEPT !.refs["code"] = "null",
                !.timers = {[t EXCEPT !.cur = IF t.kind = "code" THEN FALSE
                                              ELSE t.cur] : t \in s1.timers}]

codeThrottleCallback(s) ==
  LET s1 == IF s.pendingCodeRef # NoText
            THEN [sendMessage(s, CodeUpdateMsg(s.pendingCodeRef))
                    EXCEPT !.pendingCodeRef = NoText]
            ELSE s
  IN [s1 EXCEPT !.refs["code"] = "null",
                !.timers = {[t EXCEPT !.cur = IF t.kind = "code" THEN FALSE
                                              ELSE t.cur] : t \in s1.timers}]

persistCallback(s, newCode) == updateRoomCode(s, newCode)

----------------------------------------------------------------------------
(* RoomPage.handleCursorChange.  env holds the currentUserId and the       *)
(* participants captured by the closure that is called.                    *)

CurrentUsers(participants) ==
  SelectSeq(participants, LAMBDA p : p.isCurrentUser)

(* Variant of handleCursorChange that also sends at once when no timer is  *)
(* scheduled.                                                              *)
handleCursorChange_leading(s, cursorData, env) ==
  IF env.currentUserId = 0 \/ CurrentUsers(env.participants) = <<>> THEN s
  ELSE
    LET currentUser == CurrentUsers(env.participants)[1]
        message == CursorUpdateMsg(env.currentUserId, currentUser.username,
                                   cursorData.position)
        s1 == [s EXCEPT !.pendingCursorRef = message]
    IN IF s1.refs["cursor"] = "null"
       THEN setTimeout(sendMessage(s1, message), "cursor",
                       CURSOR_WS_THROTTLE_MS, NoText)
       ELSE s1

handleCursorChange(s, cursorData, env) ==
  IF env.currentUserId = 0 \/ CurrentUsers(env.participants) = <<>> THEN s
  ELSE
    LET currentUser == CurrentUsers(env.participants)[1]
        s1 == [s EXCEPT !.pendingCursorRef =
                 CursorUpdateMsg(env.currentUserId, currentUser.username,
                                 cursorData.position)]
    IN IF s1.refs["cursor"] = "null"
       THEN setTimeout(s1, "cursor", CURSOR_WS_THROTTLE_MS, NoText)
       ELSE s1

cursorThrottleCallback(s) ==
  LET s1 == IF s.pendingCursorRef # NoMsg
            THEN [sendMessage(s, s.pendingCursorRef)
                    EXCEPT !.pendingCursorRef = NoMsg]
            ELSE s
  IN [s1 EXCEPT !.refs["cursor"] = "null",
                !.timers = {[t EXCEPT !.cur = IF t.kind = "cursor" THEN FALSE
                                              ELSE t.cur] : t \in s1.timers}]

----------------------------------------------------------------------------
(* RoomPage.handleLanguageChange: the part before the await, and the part  *)
(* that resumes with the result of updateRoomLanguage.  A call that        *)
(* rejects resumes nothing.                                                *)

handleLanguageChange(s, newLanguage) == [s EXCEPT !.language = newLanguage]

(* Variant of the resumption that does not test result.success *)
handleLanguageChangeResume_noTest(s, newLanguage, result) ==
  sendMessage([s EXCEPT !.code = result.code],
              LanguageUpdateMsg(newLanguage, result.code))

handleLanguageChangeResume(s, newLanguage, result) ==
  IF result.success
  THEN sendMessage([s EXCEPT !.code = result.code],
                   LanguageUpdateMsg(newLanguage, result.code))
  ELSE s

(* The results of updateRoomLanguage(roomId, language): the server's reset *)
(* text for the language, a refusal, or a rejected call.                   *)
LanguageResults(language) ==
  {[success |-> TRUE, language |-> language,
    code |-> getDefaultCode(language)],
   [success |-> FALSE, language |-> language, code |-> NoText]}

(* RoomPage.handleReset *)

(* Variant of handleReset that always takes the javascript template *)
handleReset_javascriptTemplate(s) ==
  LET defaultCode == getDefaultCode("javascript")
      s1 == [updateRoomCode([s EXCEPT !.code = defaultCode], defaultCode)
               EXCEPT !.output = ""]
  IN IF s1.isConnected THEN sendMessage(s1, CodeUpdateMsg(defaultCode))
     ELSE s1

handleReset(s) ==
  LET defaultCode == getDefaultCode(s.language)
      s1 == [updateRoomCode([s EXCEPT !.code = defaultCode], defaultCode)
               EXCEPT !.output = ""]
  IN IF s1.isConnected THEN sendMessage(s1, CodeUpdateMsg(defaultCode))
     ELSE s1

----------------------------------------------------------------------------
(* CodeEditor *)

(* updateListener: the onChange it calls is the handleCodeChange of the    *)
(* render in which the editor was created (effect deps: [language]); so    *)
(* is the onCursorChange that handleSelectionChange calls.                 *)
updateListener(s, docChanged, isExternalUpdate) ==
  IF docChanged /\ ~isExternalUpdate
  THEN handleCodeChange(s, s.editorDoc, s.onChangeIsTyping)
  ELSE s

(* effect [language]: a new EditorView with doc = value *)
createEditor(s) ==
  [s EXCEPT !.editorDoc = s.code, !.onChangeIsTyping = s.isTyping,
            !.onCursorChangeEnv = [currentUserId |-> s.currentUserId,
                                   participants |-> s.participants]]

(* effect [value]: dispatch the external value into the document *)
valueEffect(s) ==
  IF s.editorDoc # s.code
  THEN updateListener([s EXCEPT !.editorDoc = s.code], TRUE, TRUE)
  ELSE s

(* The re-render that follows a handler: the effects whose deps changed *)
Render(prev, s) ==
  LET s1 == IF s.language # prev.language THEN createEditor(s) ELSE s
  IN IF s1.code # prev.code THEN valueEffect(s1) ELSE s1

(* The user types: the document changes and the listener runs *)
userTypes(s, text) ==
  updateListener([s EXCEPT !.editorDoc = text], TRUE, FALSE)

(* handleSelectionChange, called by the update listener on every update *)
handleSelectionChange(s, selectionSet, cursorData) ==
  IF selectionSet THEN handleCursorChange(s, cursorData, s.onCursorChangeEnv)
  ELSE s

(* The user moves the cursor: the selection changes, the document not *)
userMovesCursor(s, position) ==
  handleSelectionChange(updateListener(s, FALSE, FALSE), TRUE,
                        [position |-> position])

----------------------------------------------------------------------------
(* RoomPage: the effect on lastMessage *)

(* Variant of onCodeUpdate that applies the remote text through the local  *)
(* change handler.                                                         *)
onCodeUpdate_viaChangeHandler(s, m) ==
  handleCodeChange(s, m.code, s.isTyping)

onCodeUpdate(s, m) ==
  [s EXCEPT !.isRemoteUpdateRef = TRUE, !.code = m.code]

onLanguageUpdate(s, m) ==
  [s EXCEPT !.isRemoteUpdateRef = TRUE, !.language = m.language,
            !.code = m.code]

(* Variant of onCursorUpdate that inserts without removing first *)
onCursorUpdate_insertOnly(s, m) ==
  IF m.username = s.username THEN s
  ELSE [s EXCEPT !.remoteCursors = Append(@, CursorData(m))]

onCursorUpdate(s, m) ==
  IF m.username = s.username THEN s
  ELSE [s EXCEPT !.remoteCursors =
          Append(SelectSeq(@, LAMBDA c : c.oderId # m.oderId), CursorData(m))]

(* join: joinRoom(roomId, username) is called; its response is applied by  *)
(* onJoinResponse when it arrives.                                         *)
onJoin(s, m) == [s EXCEPT !.joinCalls = @ + 1]

onJoinResponse(s, res) ==
  IF res.success THEN [s EXCEPT !.participants = res.participants] ELSE s

onLeave(s, m) ==
  [s EXCEPT
     !.participants = SelectSeq(@, LAMBDA p : p.username # m.username),
     !.remoteCursors = SelectSeq(@, LAMBDA c : c.username # m.username)]

(* Variant of onParticipantTyping without the test on the local name *)
onParticipantTyping_noSelfCheck(s, m) ==
  [s EXCEPT !.participants =
     [i \in DOMAIN @ |->
        IF @[i].username = m.username
        THEN [@[i] EXCEPT !.isTyping = m.isTyping] ELSE @[i]]]

onParticipantTyping(s, m) ==
  IF m.username # s.username
  THEN [s EXCEPT !.participants =
          [i \in DOMAIN @ |->
             IF @[i].username = m.username
             THEN [@[i] EXCEPT !.isTyping = m.isTyping] ELSE @[i]]]
  ELSE s

(* The cases that read a member of `data'.  When the message has no data   *)
(* the read throws a TypeError inside the effect, which nothing catches;   *)
(* the code-update and language-update cases have set isRemoteUpdateRef    *)
(* by then.                                                                *)
DataTypes ==
  {"code-update", "language-update", "cursor-update", "participant-typing"}

onMissingData(s, m) ==
  [s EXCEPT !.fault = TRUE,
            !.isRemoteUpdateRef =
               IF m.type \in {"code-update", "language-update"} THEN TRUE
               ELSE @]

(* Variant of onMessage that treats selection-update as cursor-update *)
onMessage_selectionAsCursor(s, m) ==
  CASE m.type \in DataTypes /\ ~m.hasData -> onMissingData(s, m)
    [] m.type = "code-update" -> onCodeUpdate(s, m)
    [] m.type = "language-update" -> onLanguageUpdate(s, m)
    [] m.type \in {"cursor-update", "selection-update"} ->
         onCursorUpdate(s, m)
    [] m.type = "join" -> onJoin(s, m)
    [] m.type = "leave" -> onLeave(s, m)
    [] m.type = "participant-typing" -> onParticipantTyping(s, m)
    [] OTHER -> s

onMessage(s, m) ==
  CASE m.type \in DataTypes /\ ~m.hasData -> onMissingData(s, m)
    [] m.type = "code-update" -> onCodeUpdate(s, m)
    [] m.type = "language-update" -> onLanguageUpdate(s, m)
    [] m.type = "cursor-update" -> onCursorUpdate(s, m)
    [] m.type = "join" -> onJoin(s, m)
    [] m.type = "leave" -> onLeave(s, m)
    [] m.type = "participant-typing" -> onParticipantTyping(s, m)
    [] OTHER -> s

(* use-websocket: ws.onmessage.  A payload is text that JSON.parse         *)
(* rejects, the JSON text null, or a JSON object.                          *)
Payload(kind, m) == [kind |-> kind, message |-> m]

wsOnMessage(s, payload) ==
  CASE payload.kind = "unparseable" -> s
    [] payload.kind = "null" -> s
    [] OTHER -> onMessage(s, payload.message)

----------------------------------------------------------------------------
(* Initial state: the room has loaded (initRoom succeeded) and the socket  *)
(* has opened.                                                             *)

InitClient(c) ==
  [username |-> IF c = Me THEN "User1" ELSE "User2",
   currentUserId |-> c,
   code |-> getDefaultCode("javascript"),
   language |-> "javascript",
   editorDoc |-> getDefaultCode("javascript"),
   onChangeIsTyping |-> FALSE,
   isRemoteUpdateRef |-> FALSE,
   isTyping |-> FALSE,
   pendingCodeRef |-> NoText,
   refs |-> [k \in TimerKinds |-> "null"],
   timers |-> {},
   participants |-> <<Participant(c, c)>>,
   remoteCursors |-> <<>>,
   pendingCursorRef |-> NoMsg,
   onCursorChangeEnv |-> [currentUserId |-> c,
                          participants |-> <<Participant(c, c)>>],
   readyState |-> "OPEN",
   isConnected |-> TRUE,
   fault |-> FALSE,
   isRunning |-> FALSE,
   output |-> "",
   sent |-> <<>>,
   persisted |-> <<>>,
   joinCalls |-> 0]

Begin(s) == [s EXCEPT !.sent = <<>>, !.persisted = <<>>, !.joinCalls = 0]

SentCodes(s) ==
  SelectSeq(s.sent, LAMBDA m : m.type = "code-update")

NewLastSent(s) ==
  IF SentCodes(s) # <<>> THEN SentCodes(s)[Len(SentCodes(s))].code
  ELSE lastSentCode

(* use-websocket: the hook over its renders.  sockets: every WebSocket the *)
(* hook created, with the arguments it was created for; socketRef: the     *)
(* index of socketRef.current (0: null); effectSocket: the socket the      *)
(* cleanup of the current effect closes (0: the effect returned early);    *)
(* lastMessage: the lastMessage state (NoMsg: null); effectDue: the state  *)
(* was set and the page has not rendered since; received and handled: the  *)
(* messages parsed by ws.onmessage and those the page's effect has seen.   *)

MaxSockets == 3
RoomIds == {"", "r1", "r2"}
Usernames == {"", "User1", "User3"}

Socket(roomId, username) ==
  [roomId |-> roomId, username |-> username, readyState |-> "CONNECTING"]

wsEffect(h) ==
  IF h.roomId = "" \/ h.username = "" THEN [h EXCEPT !.effectSocket = 0]
  ELSE [h EXCEPT !.sockets = Append(@, Socket(h.roomId, h.username)),
                 !.socketRef = Len(h.sockets) + 1,
                 !.effectSocket = Len(h.sockets) + 1]

(* Variant of wsCleanup that leaves the socket as it is *)
wsCleanup_noClose(h) == [h EXCEPT !.effectSocket = 0]

(* The cleanup of the effect: ws.close() *)
wsCleanup(h) ==
  IF h.effectSocket = 0 THEN h
  ELSE [h EXCEPT !.sockets[h.effectSocket].readyState =
                    IF @ \in {"CONNECTING", "OPEN"} THEN "CLOSING" ELSE @,
                 !.effectSocket = 0]

(* The first render of the hook and its effect *)
wsMount(roomId, username) ==
  wsEffect([roomId |-> roomId, username |-> username, mounted |-> TRUE,
            sockets |-> <<>>, socketRef |-> 0, effectSocket |-> 0,
            isConnected |-> FALSE, lastMessage |-> NoMsg,
            effectDue |-> FALSE, received |-> <<>>, handled |-> <<>>])

(* A later render: when roomId or username changed, the cleanup of the     *)
(* previous effect runs and then the effect.                               *)
useWebSocket(h, roomId, username) ==
  IF roomId = h.roomId /\ username = h.username THEN h
  ELSE wsEffect([wsCleanup(h) EXCEPT !.roomId = roomId,
                                     !.username = username])

wsUnmount(h) == [wsCleanup(h) EXCEPT !.mounted = FALSE]

(* ws.onopen and ws.onclose of socket k; a state update of an unmounted    *)
(* component does nothing.                                                 *)
hookOnOpen(h, k) ==
  [h EXCEPT !.sockets[k].readyState = "OPEN",
            !.isConnected = IF h.mounted THEN TRUE ELSE @]

hookOnClose(h, k) ==
  [h EXCEPT !.sockets[k].readyState = "CLOSED",
            !.isConnected = IF h.mounted THEN FALSE ELSE @]

(* ws.onmessage: JSON.parse and setLastMessage; text that does not parse   *)
(* is logged and dropped.                                                  *)
hookOnMessage(h, payload) ==
  IF payload.kind = "unparseable" THEN h
  ELSE [h EXCEPT !.lastMessage = payload.message,
                 !.effectDue = TRUE,
                 !.received = Append(@, payload.message)]

(* RoomPage: the effect on lastMessage, run by the render that follows *)
messageEffect(s, lastMessage) ==
  IF lastMessage = NoMsg THEN s ELSE onMessage(s, lastMessage)

InitShared ==
  /\ step = "Init"
  /\ deco = [cursor |-> [position |-> 0, selectionStart |-> 0,
                         selectionEnd |-> 0],
             docLength |-> 0, decorations |-> <<>>]
  /\ sinceEdit = TYPING_TIMEOUT_MS
  /\ sinceSend = CODE_WS_THROTTLE_MS
  /\ lastEdit = NoText
  /\ lastSentCode = NoText
  /\ nEdits = [c \in Clients |-> 0]
  /\ nMsgs = 0
  /\ chan = [p \in {<<Me, Peer>>, <<Peer, Me>>} |-> <<>>]
  /\ serverRoster = <<Me>>
  /\ wsQueue = <<>>
  /\ httpReq = 0
  /\ httpResp = {}
  /\ lastCursor = [id \in Ids |-> CursorData(Msg("none"))]
  /\ cursorCount = [id \in Ids |-> 0]
  /\ joinedSeen = {}
  /\ departed = {}
  /\ nPresence = 0
  /\ delivered = NoMsg
  /\ lastMove = [position |-> 0, inWindow |-> 0]
  /\ nOps = [k \in {"move", "language", "reset", "run"} |-> 0]
  /\ langReq = {}
  /\ langResult = [success |-> FALSE, language |-> NoText, code |-> NoText]
  /\ editsAtLang = -1
  /\ runIn = [code |-> <<>>, language |-> NoText, load |-> NoText]
  /\ runOut = [output |-> NoText, error |-> NoText, state |-> "none"]
  /\ ex = [pyodide |-> "null", pyodideLoading |-> "null", stdout |-> <<>>,
           blocked |-> FALSE, calls |-> <<>>, loadingCalls |-> 0,
           inits |-> 0]

InitRest ==
  /\ InitShared
  /\ hook = hookOnOpen(wsMount("r1", "User1"), 1)

Init ==
  /\ cl = [c \in Clients |-> InitClient(c)]
  /\ InitRest

----------------------------------------------------------------------------
(* Actions of the sync specification (client Me, environment messages) *)

UserEdit(text) ==
  /\ nEdits[Me] < MaxEdits
  /\ text # cl[Me].editorDoc
  /\ LET s == Begin(cl[Me])
         r == Render(s, userTypes(s, text))
     IN /\ cl' = [cl EXCEPT ![Me] = r]
        /\ lastSentCode' = NewLastSent(r)
        /\ sinceSend' = IF SentCodes(r) # <<>> THEN 0 ELSE sinceSend
  /\ nEdits' = [nEdits EXCEPT ![Me] = @ + 1]
  /\ sinceEdit' = 0
  /\ lastEdit' = text
  /\ step' = "UserEdit"
  /\ UNCHANGED ctlVars
  /\ UNCHANGED <<nMsgs, chan, rosterVars, delivered>>

Receive(m) ==
  /\ nMsgs < MaxMsgs
  /\ LET s == Begin(cl[Me])
         r == Render(s, onMessage(s, m))
     IN /\ cl' = [cl EXCEPT ![Me] = r]
        /\ lastSentCode' = NewLastSent(r)
  /\ nMsgs' = nMsgs + 1
  /\ step' = m.type
  /\ delivered' = m
  /\ UNCHANGED ctlVars
  /\ UNCHANGED <<sinceEdit, sinceSend, lastEdit, nEdits, chan, rosterVars>>

ReceiveCodeUpdate == \E t \in Texts : Receive(CodeUpdateMsg(t))

ReceiveLanguageUpdate ==
  \E l \in Languages : Receive(LanguageUpdateMsg(l, getDefaultCode(l)))

MinRem(ts) == CHOOSE r \in {t.rem : t \in ts} : \A t \in ts : r <= t.rem

Elapse(s, d) ==
  [s EXCEPT !.timers = {[t EXCEPT !.rem = @ - d] : t \in s.timers}]

Advance(d) ==
  /\ cl[Me].timers # {}
  /\ d > 0
  /\ d <= MinRem(cl[Me].timers)
  /\ cl' = [cl EXCEPT ![Me] = Elapse(Begin(cl[Me]), d)]
  /\ sinceEdit' = Min(TYPING_TIMEOUT_MS, sinceEdit + d)
  /\ sinceSend' = Min(CODE_WS_THROTTLE_MS, sinceSend + d)
  /\ step' = "Advance"
  /\ UNCHANGED ctlVars
  /\ UNCHANGED <<lastEdit, lastSentCode, nEdits, nMsgs, chan, rosterVars,
                 delivered>>

AdvanceShort ==
  /\ PendingTimers(cl[Me], "code") # {}
  /\ \E d \in ShortDelays : Advance(d)

AdvanceLong == \E d \in LongDelays : Advance(d)

AdvanceToNext ==
  /\ cl[Me].timers # {}
  /\ Advance(MinRem(cl[Me].timers))

Fire(c, t, callback(_), name) ==
  /\ t \in cl[c].timers
  /\ t.rem = 0
  /\ LET s == Begin(cl[c])
         r == Render(s, callback([s EXCEPT !.timers = @ \ {t}]))
     IN /\ cl' = [cl EXCEPT ![c] = r]
        /\ lastSentCode' = IF c = Me THEN NewLastSent(r) ELSE lastSentCode
        /\ sinceSend' = IF c = Me /\ SentCodes(r) # <<>> THEN 0 ELSE sinceSend
  /\ step' = name
  /\ UNCHANGED ctlVars
  /\ UNCHANGED <<sinceEdit, lastEdit, nEdits, nMsgs, rosterVars, delivered>>

FireTyping ==
  \E t \in PendingTimers(cl[Me], "typing") :
    Fire(Me, t, typingTimeoutCallback, "FireTyping") /\ UNCHANGED chan

FireCodeThrottle ==
  \E t \in PendingTimers(cl[Me], "code") :
    Fire(Me, t, codeThrottleCallback, "FireCodeThrottle") /\ UNCHANGED chan

FirePersist ==
  \E t \in PendingTimers(cl[Me], "persist") :
    Fire(Me, t, LAMBDA s : persistCallback(s, t.arg), "FirePersist")
    /\ UNCHANGED chan

Next ==
  \/ \E text \in Texts : UserEdit(text)
  \/ ReceiveCodeUpdate
  \/ ReceiveLanguageUpdate
  \/ AdvanceShort
  \/ AdvanceLong
  \/ AdvanceToNext
  \/ FireTyping
  \/ FireCodeThrottle
  \/ FirePersist

Spec == Init /\ [][Next]_vars

----------------------------------------------------------------------------
(* Properties of the sync specification *)

SendsOfType(s, types) == {i \in 1..Len(s.sent) : s.sent[i].type \in types}

HasTimer(s, kind, rem) ==
  \E t \in PendingTimers(s, kind) : t.rem = rem

(* C1: loop prevention.  Applying a remote code-update sends no            *)
(* code-update and no typing-start, calls updateRoomCode not at all, and   *)
(* schedules nothing that would do so later (timers and the pending        *)
(* throttle value are untouched), whatever local edits, timers and         *)
(* messages came before.                                                   *)
C1_LoopPrevention ==
  [][step' = "code-update" =>
       /\ SendsOfType(cl'[Me], {"code-update", "typing-start"}) = {}
       /\ cl'[Me].persisted = <<>>
       /\ cl'[Me].timers = cl[Me].timers
       /\ cl'[Me].pendingCodeRef = cl[Me].pendingCodeRef]_vars

(* C1 witness: a remote code-update changed the document while a local     *)
(* edit was still waiting in the throttle window.                          *)
C1_Witness ==
  /\ step = "code-update"
  /\ cl[Me].pendingCodeRef # NoText
  /\ PendingTimers(cl[Me], "code") # {}
  /\ cl[Me].code # lastEdit
  /\ cl[Me].editorDoc = cl[Me].code

(* C2: a user edit is never suppressed: every user edit, also the first    *)
(* one after a remote code-update or language-update, runs the typing,     *)
(* broadcast-throttle and persistence-debounce logic.                      *)
C2_UserEditNeverSuppressed ==
  step = "UserEdit" =>
    /\ HasTimer(cl[Me], "typing", TYPING_TIMEOUT_MS)
    /\ cl[Me].pendingCodeRef = lastEdit
    /\ PendingTimers(cl[Me], "code") # {}
    /\ \E t \in PendingTimers(cl[Me], "persist") :
         t.rem = CODE_PERSIST_DEBOUNCE_MS /\ t.arg = lastEdit

(* C3: once the throttle timer of a burst of local edits has fired, the    *)
(* last code-update the client sent carries the final text of the burst.   *)
C3_FinalTextBroadcast ==
  (lastEdit # NoText /\ PendingTimers(cl[Me], "code") = {}) =>
    lastSentCode = lastEdit

(* C4: inside an editing burst (an edit that comes less than               *)
(* CODE_WS_THROTTLE_MS after the previous edit, or the trailing flush)     *)
(* every code-update is sent at least CODE_WS_THROTTLE_MS after the        *)
(* previous code-update of the local change path.                          *)
C4_BroadcastSpacing ==
  [][(/\ \/ step' = "FireCodeThrottle"
         \/ step' = "UserEdit" /\ sinceEdit < CODE_WS_THROTTLE_MS
      /\ SendsOfType(cl'[Me], {"code-update"}) # {})
       => sinceSend >= CODE_WS_THROTTLE_MS]_vars

(* C5: updateRoomCode is called once per burst, CODE_PERSIST_DEBOUNCE_MS   *)
(* after the last edit and with the final text; there is never more than   *)
(* one write scheduled.                                                    *)
C5_PersistDebounce ==
  /\ Cardinality(PendingTimers(cl[Me], "persist")) <= 1
  /\ step = "FirePersist" =>
       /\ cl[Me].persisted = <<lastEdit>>
       /\ sinceEdit = CODE_PERSIST_DEBOUNCE_MS

(* C6: typing-stop is sent only when TYPING_TIMEOUT_MS have passed since   *)
(* the most recent local edit.                                             *)
C6_TypingStopAfterPause ==
  SendsOfType(cl[Me], {"typing-stop"}) # {} => sinceEdit >= TYPING_TIMEOUT_MS

(* C7: an edit made while the client is not marked typing sends            *)
(* typing-start at once and marks the client typing; the inactivity timer  *)
(* then sends exactly one typing-stop and clears the mark.                 *)
C7_TypingStartStop ==
  [][/\ (step' = "UserEdit" /\ ~cl[Me].isTyping) =>
          /\ cl'[Me].isTyping
          /\ \E i \in 1..Len(cl'[Me].sent) :
               cl'[Me].sent[i] = TypingStartMsg(cl[Me].username)
     /\ step' = "FireTyping" =>
          /\ ~cl'[Me].isTyping
          /\ cl'[Me].sent = <<TypingStopMsg(cl[Me].username)>>]_vars

----------------------------------------------------------------------------
(* The presence specification: client Me, the room server's roster and the *)
(* peers that join, move their cursor and leave.  The server relays each   *)
(* presence event to client Me over the socket, in order; a joinRoom       *)
(* request is answered with the roster the server holds when it handles    *)
(* the request.                                                            *)

InRoster(id) == \E i \in 1..Len(serverRoster) : serverRoster[i] = id

PeerJoin(id) ==
  /\ nPresence < MaxPresence
  /\ id # Me
  /\ ~InRoster(id)
  /\ serverRoster' = Append(serverRoster, id)
  /\ wsQueue' = Append(wsQueue, JoinMsg(Name(id)))
  /\ nPresence' = nPresence + 1
  /\ step' = "PeerJoin"
  /\ UNCHANGED ctlVars
  /\ UNCHANGED <<cl, syncAux, nEdits, chan, httpReq, httpResp, lastCursor,
                 cursorCount, joinedSeen, departed, delivered>>

PeerLeave(id) ==
  /\ nPresence < MaxPresence
  /\ id # Me
  /\ InRoster(id)
  /\ serverRoster' = SelectSeq(serverRoster, LAMBDA x : x # id)
  /\ wsQueue' = Append(wsQueue, LeaveMsg(Name(id)))
  /\ nPresence' = nPresence + 1
  /\ step' = "PeerLeave"
  /\ UNCHANGED ctlVars
  /\ UNCHANGED <<cl, syncAux, nEdits, chan, httpReq, httpResp, lastCursor,
                 cursorCount, joinedSeen, departed, delivered>>

PeerCursor(id, position) ==
  /\ nPresence < MaxPresence
  /\ InRoster(id)
  /\ wsQueue' = Append(wsQueue, CursorUpdateMsg(id, Name(id), position))
  /\ nPresence' = nPresence + 1
  /\ step' = "PeerCursor"
  /\ UNCHANGED ctlVars
  /\ UNCHANGED <<cl, syncAux, nEdits, chan, serverRoster, httpReq, httpResp,
                 lastCursor, cursorCount, joinedSeen, departed, delivered>>

DeliverWs ==
  /\ wsQueue # <<>>
  /\ LET m == Head(wsQueue)
         s == Begin(cl[Me])
         r == Render(s, onMessage(s, m))
     IN /\ cl' = [cl EXCEPT ![Me] = r]
        /\ httpReq' = httpReq + r.joinCalls
        /\ step' = m.type
        /\ delivered' = m
        /\ lastCursor' = IF m.type = "cursor-update"
                         THEN [lastCursor EXCEPT ![m.oderId] = CursorData(m)]
                         ELSE lastCursor
        /\ cursorCount' = IF m.type = "cursor-update"
                          THEN [cursorCount EXCEPT ![m.oderId] = Min(2, @ + 1)]
                          ELSE cursorCount
        /\ joinedSeen' = IF m.type = "join" THEN joinedSeen \cup {m.username}
                         ELSE joinedSeen
        /\ departed' = CASE m.type = "join" -> departed \ {m.username}
                         [] m.type = "leave" /\ m.username \in joinedSeen ->
                              departed \cup {m.username}
                         [] OTHER -> departed
  /\ wsQueue' = Tail(wsQueue)
  /\ UNCHANGED ctlVars
  /\ UNCHANGED <<syncAux, nEdits, chan, serverRoster, httpResp, nPresence>>

(* The server handles a joinRoom request of client Me, who is a member     *)
(* already: the roster is unchanged and returned.                          *)
ServerHandleJoin ==
  /\ httpReq > 0
  /\ httpReq' = httpReq - 1
  /\ httpResp' = httpResp \cup
       {[success |-> TRUE,
         participants |-> [i \in 1..Len(serverRoster) |->
                             Participant(serverRoster[i], Me)]]}
  /\ step' = "ServerHandleJoin"
  /\ UNCHANGED ctlVars
  /\ UNCHANGED <<cl, syncAux, nEdits, chan, serverRoster, wsQueue, lastCursor,
                 cursorCount, joinedSeen, departed, nPresence, delivered>>

DeliverJoinResponse ==
  \E res \in httpResp :
    /\ httpResp' = httpResp \ {res}
    /\ LET s == Begin(cl[Me])
       IN cl' = [cl EXCEPT ![Me] = Render(s, onJoinResponse(s, res))]
    /\ step' = "JoinResponse"
    /\ UNCHANGED ctlVars
    /\ UNCHANGED <<syncAux, nEdits, chan, serverRoster, wsQueue, httpReq,
                   lastCursor, cursorCount, joinedSeen, departed, nPresence,
                   delivered>>

NextRoster ==
  \/ \E id \in Ids : PeerJoin(id)
  \/ \E id \in Ids : PeerLeave(id)
  \/ \E id \in Ids, position \in Positions : PeerCursor(id, position)
  \/ DeliverWs
  \/ ServerHandleJoin
  \/ DeliverJoinResponse

SpecRoster == Init /\ [][NextRoster]_vars

C10_DepartedStayAbsent ==
  \A name \in departed :
    /\ \A i \in 1..Len(cl[Me].participants) :
         cl[Me].participants[i].username # name
    /\ \A i \in 1..Len(cl[Me].remoteCursors) :
         cl[Me].remoteCursors[i].username # name

----------------------------------------------------------------------------
(* The peers specification: two clients of one room edit the document.     *)
(* The server relays every code-update and language-update a client sends  *)
(* to the other client, in the order the sender sent them.                 *)

Other(c) == IF c = Me THEN Peer ELSE Me

Relayed(s) ==
  SelectSeq(s.sent, LAMBDA m : m.type \in {"code-update", "language-update"})

Relay(c, r) == [chan EXCEPT ![<<c, Other(c)>>] = @ \o Relayed(r)]

PeersEdit(c, text) ==
  /\ nEdits[c] < MaxPeerEdits
  /\ text # cl[c].editorDoc
  /\ LET s == Begin(cl[c])
         r == Render(s, userTypes(s, text))
     IN /\ cl' = [cl EXCEPT ![c] = r]
        /\ chan' = Relay(c, r)
  /\ nEdits' = [nEdits EXCEPT ![c] = @ + 1]
  /\ step' = "PeersEdit"
  /\ UNCHANGED ctlVars
  /\ UNCHANGED <<syncAux, rosterVars, delivered>>

PeersDeliver(c) ==
  /\ chan[<<Other(c), c>>] # <<>>
  /\ LET m == Head(chan[<<Other(c), c>>])
         s == Begin(cl[c])
         r == Render(s, onMessage(s, m))
     IN /\ cl' = [cl EXCEPT ![c] = r]
        /\ chan' = [Relay(c, r) EXCEPT ![<<Other(c), c>>] = Tail(@)]
  /\ step' = "PeersDeliver"
  /\ UNCHANGED ctlVars
  /\ UNCHANGED <<syncAux, nEdits, rosterVars, delivered>>

AllTimers == UNION {cl[c].timers : c \in Clients}

PeersAdvance ==
  /\ AllTimers # {}
  /\ MinRem(AllTimers) > 0
  /\ cl' = [c \in Clients |-> Elapse(Begin(cl[c]), MinRem(AllTimers))]
  /\ step' = "PeersAdvance"
  /\ UNCHANGED ctlVars
  /\ UNCHANGED <<syncAux, nEdits, chan, rosterVars, delivered>>

PeersFire(c) ==
  \E t \in cl[c].timers :
    /\ t.rem = 0
    /\ LET s == Begin(cl[c])
           s1 == [s EXCEPT !.timers = @ \ {t}]
           r == Render(s, CASE t.kind = "typing" -> typingTimeoutCallback(s1)
                            [] t.kind = "code" -> codeThrottleCallback(s1)
                            [] OTHER -> persistCallback(s1, t.arg))
       IN /\ cl' = [cl EXCEPT ![c] = r]
          /\ chan' = Relay(c, r)
    /\ step' = "PeersFire"
    /\ UNCHANGED ctlVars
    /\ UNCHANGED <<syncAux, nEdits, rosterVars, delivered>>

NextPeers ==
  \/ \E c \in Clients, text \in Texts : PeersEdit(c, text)
  \/ \E c \in Clients : PeersDeliver(c)
  \/ PeersAdvance
  \/ \E c \in Clients : PeersFire(c)

SpecPeers == Init /\ [][NextPeers]_vars

Quiescent ==
  /\ \A p \in DOMAIN chan : chan[p] = <<>>
  /\ \A c \in Clients : PendingTimers(cl[c], "code") = {}

(* C8: once every message in flight has been delivered and every throttle *)
(* timer has fired, all peers hold the same document text.                 *)
C8_Convergence ==
  Quiescent => cl[Me].code = cl[Peer].code

----------------------------------------------------------------------------
(* The inbound specification: client Me in a room of three participants;   *)
(* the socket delivers payloads of any content, one at a time.             *)

MaxInbound == 3

Names == {Name(id) : id \in Ids}

InitInbound ==
  /\ cl = [c \in Clients |->
             [InitClient(c) EXCEPT
                !.participants = <<Participant(1, c), Participant(2, c),
                                   Participant(3, c)>>,
                !.onCursorChangeEnv.participants =
                   <<Participant(1, c), Participant(2, c),
                     Participant(3, c)>>]]
  /\ InitRest

Inbound(payload, name) ==
  /\ nMsgs < MaxInbound
  /\ ~cl[Me].fault
  /\ LET s == Begin(cl[Me])
         r == Render(s, wsOnMessage(s, payload))
     IN /\ cl' = [cl EXCEPT ![Me] = r]
        /\ lastSentCode' = NewLastSent(r)
  /\ nMsgs' = nMsgs + 1
  /\ step' = name
  /\ delivered' = payload.message
  /\ UNCHANGED ctlVars
  /\ UNCHANGED <<sinceEdit, sinceSend, lastEdit, nEdits, chan,
                 rosterVars>>

InboundCursorUpdate ==
  \E id \in Ids, name \in Names, position \in Positions :
    Inbound(Payload("object", CursorUpdateMsg(id, name, position)),
            "cursor-update")

InboundSelectionUpdate ==
  \E id \in Ids, name \in Names, position \in Positions :
    Inbound(Payload("object", SelectionUpdateMsg(id, name, position)),
            "selection-update")

InboundParticipantTyping ==
  \E name \in Names, isTyping \in BOOLEAN :
    Inbound(Payload("object", ParticipantTypingMsg(name, isTyping)),
            "participant-typing")

MalformedPayloads ==
  {Payload("unparseable", NoMsg), Payload("null", NoMsg)}
  \cup {Payload("object", [Msg(t) EXCEPT !.hasData = FALSE]) :
          t \in DataTypes \cup {"none"}}

InboundMalformed ==
  \E payload \in MalformedPayloads : Inbound(payload, "Malformed")

NextInbound ==
  \/ InboundCursorUpdate
  \/ InboundSelectionUpdate
  \/ InboundParticipantTyping
  \/ InboundMalformed

SpecInbound == InitInbound /\ [][NextInbound]_vars

(* C11: the cursor map never holds an entry keyed by the identity of the   *)
(* local participant, whatever display name a cursor-update carries.       *)
C11_NoLocalCursorEntry ==
  \A i \in 1..Len(cl[Me].remoteCursors) :
    cl[Me].remoteCursors[i].oderId # cl[Me].currentUserId

(* C12 as stated: a selection-update of another sender leaves the          *)
(* sender's data in the cursor map, as a cursor-update does.               *)
C12_SelectionUpserts ==
  (step = "selection-update" /\ delivered.username # cl[Me].username) =>
    \E i \in 1..Len(cl[Me].remoteCursors) :
      cl[Me].remoteCursors[i] = CursorData(delivered)

(* C12: a selection-update is not handled: the message effect has no case  *)
(* for it, so the cursor map and every other part of the client state      *)
(* stay as they were; only cursor-update upserts the sender's entry.       *)
C12_SelectionIgnored ==
  [][step' = "selection-update" => cl'[Me] = Begin(cl[Me])]_vars

(* C12 witness: a selection-update of another participant arrived while    *)
(* the cursor map held an entry, and the map has no entry for its data.    *)
C12_Witness ==
  /\ step = "selection-update"
  /\ delivered.username # cl[Me].username
  /\ cl[Me].remoteCursors # <<>>
  /\ \A i \in 1..Len(cl[Me].remoteCursors) :
       cl[Me].remoteCursors[i] # CursorData(delivered)

(* C15: a payload that is not a valid message is discarded: no fault is    *)
(* raised and document, language, roster and cursor map are unchanged.     *)
C15_MalformedDiscarded ==
  [][step' = "Malformed" =>
       /\ ~cl'[Me].fault
       /\ cl'[Me].code = cl[Me].code
       /\ cl'[Me].language = cl[Me].language
       /\ cl'[Me].participants = cl[Me].participants
       /\ cl'[Me].remoteCursors = cl[Me].remoteCursors]_vars

(* C19: participant-typing(name, flag) with a name other than the local    *)
(* username sets the typing flag of the roster entries of that name and    *)
(* changes nothing else; with the local username it changes nothing.       *)
C19_ParticipantTyping ==
  [][step' = "participant-typing" =>
       cl'[Me] =
         [Begin(cl[Me]) EXCEPT !.participants =
            IF delivered'.username # cl[Me].username
            THEN [i \in DOMAIN @ |->
                    IF @[i].username = delivered'.username
                    THEN [@[i] EXCEPT !.isTyping = delivered'.isTyping]
                    ELSE @[i]]
            ELSE @]]_vars

(* C19 witness: participant-typing(User2, true) marked User2 and nobody    *)
(* else as typing.                                                         *)
C19_Witness ==
  /\ step = "participant-typing"
  /\ delivered.username = Name(2)
  /\ delivered.isTyping
  /\ cl[Me].participants[2].isTyping
  /\ ~cl[Me].participants[1].isTyping
  /\ ~cl[Me].participants[3].isTyping

----------------------------------------------------------------------------
(* The controls specification: the user of client Me edits, moves the      *)
(* cursor, changes the language and resets the document, with the socket   *)
(* open; the server answers updateRoomLanguage calls.                      *)

MaxMoves == 3
MaxLanguageChanges == 2
MaxResets == 1

(* Texts client Me has produced so far: user edits and resets *)
Produced == nEdits[Me] + nOps["reset"]

CursorMove(position) ==
  /\ nOps["move"] < MaxMoves
  /\ LET s == Begin(cl[Me])
     IN cl' = [cl EXCEPT ![Me] = Render(s, userMovesCursor(s, position))]
  /\ lastMove' = [position |-> position,
                  inWindow |-> IF PendingTimers(cl[Me], "cursor") # {}
                               THEN lastMove.inWindow + 1 ELSE 1]
  /\ nOps' = [nOps EXCEPT !["move"] = @ + 1]
  /\ step' = "CursorMove"
  /\ UNCHANGED <<syncAux, nEdits, chan, rosterVars, delivered, langVars,
                 runVars, hook, deco>>

AdvanceInCursorWindow ==
  /\ PendingTimers(cl[Me], "cursor") # {}
  /\ \E d \in ShortDelays : Advance(d)

FireCursor ==
  \E t \in PendingTimers(cl[Me], "cursor") :
    Fire(Me, t, cursorThrottleCallback, "FireCursor") /\ UNCHANGED chan

LanguageChange(newLanguage) ==
  /\ nOps["language"] < MaxLanguageChanges
  /\ newLanguage # cl[Me].language
  /\ newLanguage \notin langReq
  /\ LET s == Begin(cl[Me])
     IN cl' = [cl EXCEPT ![Me] =
                 Render(s, handleLanguageChange(s, newLanguage))]
  /\ langReq' = langReq \cup {newLanguage}
  /\ nOps' = [nOps EXCEPT !["language"] = @ + 1]
  /\ step' = "LanguageChange"
  /\ UNCHANGED <<syncAux, nEdits, chan, rosterVars, delivered, lastMove,
                 langResult, editsAtLang, runVars, hook, deco>>

LanguageResponse(newLanguage, result) ==
  /\ newLanguage \in langReq
  /\ LET s == Begin(cl[Me])
         r == Render(s, handleLanguageChangeResume(s, newLanguage, result))
     IN /\ cl' = [cl EXCEPT ![Me] = r]
        /\ editsAtLang' = IF SendsOfType(r, {"language-update"}) # {}
                          THEN Produced ELSE editsAtLang
  /\ langReq' = langReq \ {newLanguage}
  /\ langResult' = result
  /\ step' = "LanguageResponse"
  /\ UNCHANGED <<syncAux, nEdits, chan, rosterVars, delivered, lastMove,
                 runVars, nOps, hook, deco>>

LanguageRejected(newLanguage) ==
  /\ newLanguage \in langReq
  /\ cl' = [cl EXCEPT ![Me] = Begin(cl[Me])]
  /\ langReq' = langReq \ {newLanguage}
  /\ step' = "LanguageRejected"
  /\ UNCHANGED <<syncAux, nEdits, chan, rosterVars, delivered, lastMove,
                 langResult, editsAtLang, runVars, nOps, hook, deco>>

Reset ==
  /\ nOps["reset"] < MaxResets
  /\ LET s == Begin(cl[Me])
         r == Render(s, handleReset(s))
     IN /\ cl' = [cl EXCEPT ![Me] = r]
        /\ lastSentCode' = NewLastSent(r)
        /\ sinceSend' = IF SentCodes(r) # <<>> THEN 0 ELSE sinceSend
  /\ nOps' = [nOps EXCEPT !["reset"] = @ + 1]
  /\ step' = "Reset"
  /\ UNCHANGED <<sinceEdit, lastEdit, nMsgs, nEdits, chan, rosterVars,
                 delivered, lastMove, langVars, runVars, hook, deco>>

NextCursor ==
  \/ \E position \in Positions : CursorMove(position)
  \/ AdvanceInCursorWindow
  \/ AdvanceToNext
  \/ FireCursor

SpecCursor == Init /\ [][NextCursor]_vars

NextControls ==
  \/ \E text \in Texts : UserEdit(text)
  \/ \E l \in Languages : LanguageChange(l)
  \/ \E l \in Languages :
       \E result \in LanguageResults(l) : LanguageResponse(l, result)
  \/ \E l \in Languages : LanguageRejected(l)
  \/ Reset
  \/ AdvanceToNext
  \/ FireTyping
  \/ FireCodeThrottle
  \/ FirePersist

SpecControls == Init /\ [][NextControls]_vars

(* C13 as stated: the first cursor change of a throttle window is sent at  *)
(* once.                                                                   *)
C13_FirstChangeSentAtOnce ==
  [][(step' = "CursorMove" /\ PendingTimers(cl[Me], "cursor") = {}) =>
       \E i \in 1..Len(cl'[Me].sent) :
         /\ cl'[Me].sent[i].type = "cursor-update"
         /\ cl'[Me].sent[i].position = lastMove'.position]_vars

(* C13: cursor changes are throttled with a window of                      *)
(* CURSOR_WS_THROTTLE_MS that sends at its end only.  A cursor change      *)
(* sends nothing: it becomes the pending value, and the first change of a  *)
(* window starts the one timer of the window.  When the timer fires, the   *)
(* most recent pending value is sent, exactly once, and the window closes. *)
(* No other step sends a cursor-update.                                    *)
C13_TrailingThrottle ==
  [][/\ step' = "CursorMove" =>
          /\ cl'[Me].sent = <<>>
          /\ cl'[Me].pendingCursorRef =
               CursorUpdateMsg(cl[Me].currentUserId, cl[Me].username,
                               lastMove'.position)
          /\ IF PendingTimers(cl[Me], "cursor") = {}
             THEN PendingTimers(cl'[Me], "cursor") =
                    {[kind |-> "cursor", rem |-> CURSOR_WS_THROTTLE_MS,
                      arg |-> NoText, cur |-> TRUE]}
             ELSE cl'[Me].timers = cl[Me].timers
     /\ step' = "FireCursor" =>
          /\ cl'[Me].sent =
               <<CursorUpdateMsg(cl[Me].currentUserId, cl[Me].username,
                                 lastMove.position)>>
          /\ cl'[Me].pendingCursorRef = NoMsg
          /\ PendingTimers(cl'[Me], "cursor") = {}
     /\ step' # "FireCursor" =>
          SendsOfType(cl'[Me], {"cursor-update"}) = {}]_vars

(* C13 witness: the timer of a window with two cursor changes, 10 and then *)
(* 50, fired and sent the one cursor-update for position 50.               *)
C13_Witness ==
  /\ step = "FireCursor"
  /\ lastMove = [position |-> 50, inWindow |-> 2]
  /\ cl[Me].sent = <<CursorUpdateMsg(Me, "User1", 50)>>

(* C16: handleLanguageChange sends nothing and leaves the text alone       *)
(* before updateRoomLanguage has answered.  When the answer reports        *)
(* success, the text becomes the returned reset text and one               *)
(* language-update with the new language id and that text is sent; else    *)
(* nothing is sent and the text is unchanged.                              *)
C16_BroadcastAfterSuccess ==
  [][/\ step' = "LanguageChange" =>
          /\ cl'[Me].sent = <<>>
          /\ cl'[Me].code = cl[Me].code
     /\ step' = "LanguageResponse" =>
          IF langResult'.success
          THEN /\ cl'[Me].sent =
                    <<LanguageUpdateMsg(langResult'.language,
                                        langResult'.code)>>
               /\ cl'[Me].code = langResult'.code
               /\ langResult'.language \in langReq
          ELSE /\ cl'[Me].sent = <<>>
               /\ cl'[Me].code = cl[Me].code
     /\ step' = "LanguageRejected" =>
          /\ cl'[Me].sent = <<>>
          /\ cl'[Me].code = cl[Me].code]_vars

(* C16 witness: the change to python was answered with success and the     *)
(* language-update with the python reset text went out.                    *)
C16_Witness ==
  /\ step = "LanguageResponse"
  /\ langResult.success
  /\ cl[Me].sent = <<LanguageUpdateMsg("python", getDefaultCode("python"))>>
  /\ cl[Me].code = getDefaultCode("python")
  /\ cl[Me].editorDoc = getDefaultCode("python")

(* C17: once client Me has sent a language-update and produced no text     *)
(* since, it sends no code-update and makes no updateRoomCode call: a      *)
(* throttle flush or debounced write scheduled before the language change  *)
(* does not happen after it.                                               *)
C17_NoStaleTextAfterLanguageChange ==
  editsAtLang = Produced =>
    /\ SendsOfType(cl[Me], {"code-update"}) = {}
    /\ cl[Me].persisted = <<>>

(* C18: onReset makes the default template of the current language the     *)
(* document, calls updateRoomCode with it and sends it as a code-update;   *)
(* language, roster, cursor map and everything else stay as they were.     *)
C18_Reset ==
  [][step' = "Reset" =>
       LET defaultCode == getDefaultCode(cl[Me].language) IN
       cl'[Me] = [Begin(cl[Me]) EXCEPT
                    !.code = defaultCode,
                    !.editorDoc = defaultCode,
                    !.persisted = <<defaultCode>>,
                    !.sent = IF cl[Me].readyState = "OPEN"
                                /\ cl[Me].isConnected
                             THEN <<CodeUpdateMsg(defaultCode)>>
                             ELSE <<>>]]_vars

(* C18 witness: a reset under python, after an edit, restored the python   *)
(* template, wrote it and sent it.                                         *)
C18_Witness ==
  /\ step = "Reset"
  /\ cl[Me].language = "python"
  /\ lastEdit # NoText
  /\ cl[Me].code = getDefaultCode("python")
  /\ cl[Me].editorDoc = getDefaultCode("python")
  /\ cl[Me].persisted = <<getDefaultCode("python")>>
  /\ cl[Me].sent = <<CodeUpdateMsg(getDefaultCode("python"))>>

----------------------------------------------------------------------------
(* The channel specification: client Me edits and resets while its socket  *)
(* is connecting, open or closed.                                          *)

InitChannel ==
  /\ cl = [c \in Clients |->
             [InitClient(c) EXCEPT !.readyState = "CONNECTING",
                                   !.isConnected = FALSE]]
  /\ InitRest

SocketEvent(handler(_), name) ==
  /\ LET s == Begin(cl[Me])
     IN cl' = [cl EXCEPT ![Me] = Render(s, handler(s))]
  /\ step' = name
  /\ UNCHANGED <<syncAux, nEdits, chan, rosterVars, delivered, ctlVars>>

WsOpen ==
  /\ cl[Me].readyState = "CONNECTING"
  /\ SocketEvent(wsOnOpen, "WsOpen")

WsClose ==
  /\ cl[Me].readyState \in {"CONNECTING", "OPEN"}
  /\ SocketEvent(wsOnClose, "WsClose")

NextChannel ==
  \/ WsOpen
  \/ WsClose
  \/ \E text \in Texts : UserEdit(text)
  \/ Reset
  \/ AdvanceToNext
  \/ FireTyping
  \/ FireCodeThrottle
  \/ FirePersist

SpecChannel == InitChannel /\ [][NextChannel]_vars

(* C14: a message is transmitted only by a send made while the socket is   *)
(* open.  A send made while it is not open transmits nothing and leaves    *)
(* nothing behind: when the socket opens (or closes) nothing is            *)
(* transmitted and only the socket state and the connectivity flag change. *)
C14_SendOnlyWhenOpen ==
  [][/\ cl'[Me].sent # <<>> => cl[Me].readyState = "OPEN"
     /\ step' = "WsOpen" =>
          cl'[Me] = [Begin(cl[Me]) EXCEPT !.readyState = "OPEN",
                                          !.isConnected = TRUE]
     /\ step' = "WsClose" =>
          cl'[Me] = [Begin(cl[Me]) EXCEPT !.readyState = "CLOSED",
                                          !.isConnected = FALSE]]_vars

(* C14 witness: the socket opened after an edit made while it was          *)
(* connecting; the edit's code-update was dropped and the opening sent     *)
(* nothing.                                                                *)
C14_Witness ==
  /\ step = "WsOpen"
  /\ nEdits[Me] > 0
  /\ cl[Me].code = lastEdit
  /\ lastSentCode = NoText
  /\ cl[Me].sent = <<>>

----------------------------------------------------------------------------
(* code-executor: executeCode.  A program is a sequence of statements that *)
(* print a line, throw an Error with a message, or throw a value that is   *)
(* not an Error (a string, null, undefined).                               *)

MaxStmts == 2
MaxRuns == 3

Stmt(op, arg) == [op |-> op, arg |-> arg]
Stmts ==
  {Stmt("print", "hi"), Stmt("throw", "Boom"), Stmt("throwValue", "string"),
   Stmt("throwValue", "null")}
Programs == UNION {[1..n -> Stmts] : n \in 0..MaxStmts}
RunLanguages == {"javascript", "python", "rust", "Python", ""}
LoadOutcomes == {"loaded", "failed"}

NoOutputText == "Code executed successfully (no output)"

(* What the promise of a call settles with: a result { output, error }     *)
(* (error NoText: no error member, or undefined), or a rejection.          *)
Result(output, error) ==
  [output |-> output, error |-> error, state |-> "resolved"]
Rejection == [output |-> NoText, error |-> NoText, state |-> "rejected"]

RECURSIVE Join(_)
Join(lines) ==
  IF Len(lines) = 0 THEN ""
  ELSE IF Len(lines) = 1 THEN lines[1]
  ELSE lines[1] \o "\n" \o Join(Tail(lines))

(* The statements that run: those before the first fault *)
RECURSIVE Printed(_)
Printed(code) ==
  IF code = <<>> \/ Head(code).op # "print" THEN <<>>
  ELSE <<Head(code).arg>> \o Printed(Tail(code))

Faults(code) ==
  SelectSeq(code, LAMBDA st : st.op \in {"throw", "throwValue"})

(* catch (error) of executeJavaScript, with the lines logged so far.       *)
(* error.message is the message of an Error, undefined for a string, and   *)
(* reading it throws a TypeError when error is null or undefined.          *)
jsCatch(logs, fault) ==
  IF fault.op = "throwValue" /\ fault.arg \in {"null", "undefined"}
  THEN Rejection
  ELSE LET message == IF fault.op = "throw" THEN fault.arg ELSE "undefined"
       IN Result(IF Len(logs) > 0
                 THEN Join(logs) \o "\n" \o "Error: " \o message
                 ELSE "Error: " \o message,
                 IF fault.op = "throw" THEN fault.arg ELSE NoText)

executeJavaScript(code) ==
  LET logs == Printed(code) IN
  IF Faults(code) = <<>>
  THEN Result(IF Len(logs) > 0 THEN Join(logs) ELSE NoOutputText, NoText)
  ELSE jsCatch(logs, Faults(code)[1])

(* The message of the PythonError pyodide throws for a fault of the code;  *)
(* raising a value that is no exception is a TypeError of the interpreter. *)
pyMessage(fault) ==
  IF fault.op = "throw" THEN fault.arg
  ELSE "TypeError: exceptions must derive from BaseException"

LoadFailedText == "Failed to load Pyodide script from CDN"

(* catch (error) of executePython *)
pyCatch(message) == Result("Error: " \o message, message)

(* load: whether loadPyodideRuntime resolves or rejects *)
executePython(code, load) ==
  IF load = "failed" THEN pyCatch(LoadFailedText)
  ELSE IF Faults(code) # <<>> THEN pyCatch(pyMessage(Faults(code)[1]))
  ELSE Result(IF Join(Printed(code)) # "" THEN Join(Printed(code))
              ELSE NoOutputText, NoText)

(* Variant of executeCode that runs any other language as javascript *)
executeCode_defaultJavaScript(code, language, load) ==
  CASE language = "python" -> executePython(code, load)
    [] OTHER -> executeJavaScript(code)

executeCode(code, language, load) ==
  CASE language = "javascript" -> executeJavaScript(code)
    [] language = "python" -> executePython(code, load)
    [] OTHER -> Result("Unsupported language: " \o language,
                       "Unsupported language")

Run(code, language, load) ==
  /\ nOps["run"] < MaxRuns
  /\ runIn' = [code |-> code, language |-> language, load |-> load]
  /\ runOut' = executeCode(code, language, load)
  /\ nOps' = [nOps EXCEPT !["run"] = @ + 1]
  /\ step' = "Run"
  /\ UNCHANGED <<cl, syncAux, nEdits, chan, rosterVars, delivered, lastMove,
                 langVars, ex, hook, deco>>

NextRun ==
  \E code \in Programs, language \in RunLanguages, load \in LoadOutcomes :
    Run(code, language, load)

SpecRun == Init /\ [][NextRun]_vars

(* C20: for every language other than javascript and python, executeCode   *)
(* resolves with the output "Unsupported language: <language>" and with    *)
(* the error field set, whatever the code is.                              *)
C20_UnsupportedLanguage ==
  (step = "Run" /\ runIn.language \notin {"javascript", "python"}) =>
    runOut = Result("Unsupported language: " \o runIn.language,
                    "Unsupported language")

(* C20 witness: a program that would raise a fault was run as rust *)
C20_Witness ==
  /\ step = "Run"
  /\ runIn.language = "rust"
  /\ Faults(runIn.code) # <<>>
  /\ runOut.output = "Unsupported language: rust"
  /\ runOut.error # NoText

(* C21: when the code throws an Error with message m, the result has       *)
(* error = m and its output is what the code printed before the fault      *)
(* followed by "Error: m", for both evaluators.                            *)
C21_FaultAppended ==
  (/\ step = "Run"
   /\ runIn.language \in {"javascript", "python"}
   /\ runIn.load = "loaded"
   /\ Faults(runIn.code) # <<>>
   /\ Faults(runIn.code)[1].op = "throw") =>
    LET m == Faults(runIn.code)[1].arg IN
    /\ runOut.error = m
    /\ runOut.output = Join(Printed(runIn.code) \o <<"Error: " \o m>>)

(* C23: executeCode never rejects: whatever the code throws, and when the  *)
(* interpreter fails to load, the call resolves with a result whose error  *)
(* is set.                                                                 *)
C23_NeverRejects ==
  step = "Run" =>
    /\ runOut.state = "resolved"
    /\ \/ Faults(runIn.code) # <<>>
          /\ runIn.language \in {"javascript", "python"}
       \/ runIn.language = "python" /\ runIn.load = "failed"
       => runOut.error # NoText

----------------------------------------------------------------------------
(* code-executor over time.  A call of executeCode is followed through its *)
(* awaits: the load of the interpreter, the race against the timer, and    *)
(* code that goes on after the call has settled.  Besides printing and     *)
(* throwing, a program can defer the statements after it ("later": after   *)
(* `await asyncio.sleep` in python, in a setTimeout callback in            *)
(* javascript) and can loop forever without yielding ("loop").             *)

MaxCalls == 2
EXECUTION_TIMEOUT_MS == 5000
TimeoutText == "Execution timed out (5 seconds)"

Delay(arg) == IF arg = "short" THEN 2000 ELSE 6000
ElapsedCap == EXECUTION_TIMEOUT_MS + Delay("short")

ExecPrograms ==
  {<<Stmt("print", "hi")>>,
   <<Stmt("print", "hi"), Stmt("throw", "Boom")>>,
   <<Stmt("loop", "")>>,
   <<Stmt("throwValue", "null")>>,
   <<Stmt("later", "short"), Stmt("print", "hi")>>,
   <<Stmt("later", "long"), Stmt("print", "hi")>>}

NoResult == [output |-> NoText, error |-> NoText, state |-> "none"]
NoFault == Stmt("none", "")

(* One call of executeCode.  ps: where its promise is ("loading": awaiting *)
(* loadPyodideRuntime, "racing": awaiting Promise.race, "settled"); cs:    *)
(* where its code is; logs: the logs array of a javascript call; timer:    *)
(* the time left on its race timer; wake: the time left until its deferred *)
(* statements run; from: the calls whose printed text is in its output.    *)
Call(language, code, byPage) ==
  [language |-> language, code |-> code, byPage |-> byPage, pc |-> 1,
   ps |-> "new", cs |-> "idle", logs |-> <<>>, timer |-> -1, wake |-> -1,
   elapsed |-> 0, result |-> NoResult, from |-> {}]

Lines(buf) == [k \in 1..Len(buf) |-> buf[k].text]
Writers(buf) == {buf[k].by : k \in 1..Len(buf)}

(* The code of call id runs from statement pc, printing into out, until it *)
(* ends, throws, defers the rest, or loops forever.                        *)
RECURSIVE Steps(_, _, _, _)
Steps(code, pc, id, out) ==
  IF pc > Len(code)
  THEN [pc |-> pc, out |-> out, cs |-> "finished", fault |-> NoFault,
        wake |-> -1]
  ELSE LET st == code[pc] IN
       CASE st.op = "print" ->
              Steps(code, pc + 1, id, Append(out, [by |-> id, text |-> st.arg]))
         [] st.op = "later" ->
              [pc |-> pc + 1, out |-> out, cs |-> "suspended",
               fault |-> NoFault, wake |-> Delay(st.arg)]
         [] st.op = "loop" ->
              [pc |-> pc, out |-> out, cs |-> "looping", fault |-> NoFault,
               wake |-> -1]
         [] OTHER ->
              [pc |-> pc, out |-> out, cs |-> "failed", fault |-> st,
               wake |-> -1]

settle(e, i, result, from) ==
  [e EXCEPT !.calls[i].ps = "settled", !.calls[i].result = result,
            !.calls[i].from = from, !.calls[i].timer = -1]

(* executeJavaScript: the code of call i runs (from its start, or from     *)
(* its deferred statements).  fn.call returns as soon as the synchronous   *)
(* part ends, so the race is settled at once and its timer never wins; a   *)
(* loop that never yields keeps fn.call from returning, and the timer is   *)
(* not even created.                                                       *)
runJavaScript(e, i) ==
  LET c == e.calls[i]
      r == Steps(c.code, c.pc, i, c.logs)
      e1 == [e EXCEPT !.calls[i].pc = r.pc, !.calls[i].cs = r.cs,
                      !.calls[i].logs = r.out, !.calls[i].wake = r.wake,
                      !.blocked = e.blocked \/ r.cs = "looping"]
  IN IF c.ps = "settled" THEN e1
     ELSE CASE r.cs = "looping" -> [e1 EXCEPT !.calls[i].ps = "racing"]
            [] r.cs = "failed" ->
                 settle(e1, i, jsCatch(Lines(r.out), r.fault), Writers(r.out))
            [] OTHER ->
                 settle(e1, i,
                        Result(IF Len(r.out) > 0 THEN Join(Lines(r.out))
                               ELSE NoOutputText, NoText),
                        Writers(r.out))

(* executePython from runPythonAsync on: the code of call i runs, printing *)
(* into the interpreter's sys.stdout.  While the call awaits the race, a   *)
(* fault goes to its catch and the end of the code lets it read and then   *)
(* replace sys.stdout; after the race nobody awaits the code.              *)
runPython(e, i) ==
  LET c == e.calls[i]
      r == Steps(c.code, c.pc, i, e.stdout)
      e1 == [e EXCEPT !.stdout = r.out, !.calls[i].pc = r.pc,
                      !.calls[i].cs = r.cs, !.calls[i].wake = r.wake,
                      !.blocked = e.blocked \/ r.cs = "looping"]
      text == Join(Lines(r.out))
  IN IF c.ps # "racing" THEN e1
     ELSE CASE r.cs = "failed" ->
                 settle(e1, i, pyCatch(pyMessage(r.fault)), {})
            [] r.cs = "finished" ->
                 settle([e1 EXCEPT !.stdout = <<>>], i,
                        Result(IF text # "" THEN text ELSE NoOutputText,
                               NoText),
                        Writers(r.out))
            [] OTHER -> e1

(* executePython after the load: sys.stdout is replaced by a new buffer,   *)
(* the race timer is created and the code starts.                          *)
pyExec(e, i) ==
  runPython([e EXCEPT !.stdout = <<>>,
                      !.calls[i].timer = EXECUTION_TIMEOUT_MS,
                      !.calls[i].ps = "racing"], i)

(* loadPyodideRuntime: the interpreter, else the load in progress (or the  *)
(* load that failed), else a new load.                                     *)
(* Variant of loadPyodideRuntime without the test of the load in progress *)
loadPyodideRuntime_noMarker(e) ==
  IF e.pyodide # "null" THEN e
  ELSE [e EXCEPT !.pyodideLoading = "pending", !.inits = @ + 1]

loadPyodideRuntime(e) ==
  IF e.pyodide # "null" \/ e.pyodideLoading # "null" THEN e
  ELSE [e EXCEPT !.pyodideLoading = "pending", !.inits = @ + 1]

(* executePython up to its first await *)
startPython(e, i) ==
  LET e1 == IF e.pyodide = "null" THEN [e EXCEPT !.loadingCalls = @ + 1]
            ELSE e
      e2 == loadPyodideRuntime(e1)
  IN CASE e2.pyodide # "null" -> pyExec(e2, i)
       [] e2.pyodideLoading = "rejected" ->
            settle(e2, i, pyCatch(LoadFailedText), {})
       [] OTHER -> [e2 EXCEPT !.calls[i].ps = "loading"]

executeCodeCall(e, code, language, byPage) ==
  LET i == Len(e.calls) + 1
      e0 == [e EXCEPT !.calls = Append(@, Call(language, code, byPage))]
  IN IF language = "javascript" THEN runJavaScript(e0, i)
     ELSE startPython(e0, i)

loadFailure(e, i) == settle(e, i, pyCatch(LoadFailedText), {})

(* The calls that await the load continue, in the order they were made *)
RECURSIVE resumeFrom(_, _)
resumeFrom(e, i) ==
  IF i > Len(e.calls) THEN e
  ELSE resumeFrom(IF e.calls[i].ps # "loading" THEN e
                  ELSE IF e.pyodide # "null" THEN pyExec(e, i)
                  ELSE loadFailure(e, i),
                  i + 1)

loadResolved(e) ==
  resumeFrom([e EXCEPT !.pyodide = "ready", !.pyodideLoading = "resolved"], 1)

loadRejected(e) == resumeFrom([e EXCEPT !.pyodideLoading = "rejected"], 1)

raceTimeout(e, i) == settle(e, i, pyCatch(TimeoutText), {})

wake(e, i) ==
  LET e0 == [e EXCEPT !.calls[i].wake = -1]
  IN IF e.calls[i].language = "javascript" THEN runJavaScript(e0, i)
     ELSE runPython(e0, i)

(* RoomPage: handleRun up to its await, the loading callback it passes,    *)
(* and what follows the await (try, catch, finally).                       *)
handleRun(s) == [s EXCEPT !.isRunning = TRUE, !.output = ""]

onPyodideLoading(s) == [s EXCEPT !.output = "Loading Python runtime..."]

(* Variant of handleRunResume that re-enables the run control only after   *)
(* a call that resolved.                                                   *)
handleRunResume_noFinally(s, outcome) ==
  IF outcome.state = "resolved"
  THEN [s EXCEPT !.output = outcome.output, !.isRunning = FALSE]
  ELSE [s EXCEPT !.output = "Execution failed. Please try again."]

handleRunResume(s, outcome) ==
  [s EXCEPT !.output = IF outcome.state = "resolved" THEN outcome.output
                       ELSE "Execution failed. Please try again.",
            !.isRunning = FALSE]

Outstanding(e) == {i \in 1..Len(e.calls) : e.calls[i].ps # "settled"}
PageCalls(e) == {i \in 1..Len(e.calls) : e.calls[i].byPage}

(* The page after the executor went from e to e2 *)
pageAfter(s, e, e2) ==
  LET s1 == IF e2.loadingCalls > e.loadingCalls
               /\ PageCalls(e2) # PageCalls(e)
            THEN onPyodideLoading(s) ELSE s
      done == (PageCalls(e2) \ Outstanding(e2)) \
              (PageCalls(e) \ Outstanding(e))
  IN IF done = {} THEN s1
     ELSE handleRunResume(s1, e2.calls[CHOOSE i \in done : TRUE].result)

ExecStep(e2, name) ==
  /\ ex' = e2
  /\ LET s == Begin(cl[Me])
     IN cl' = [cl EXCEPT ![Me] = Render(s, pageAfter(s, ex, e2))]
  /\ step' = name
  /\ UNCHANGED <<syncAux, nEdits, chan, rosterVars, delivered, lastMove,
                 langVars, runIn, runOut, nOps, hook, deco>>

(* A call of executeCode by any caller *)
ExecCall(code, language) ==
  /\ ~ex.blocked
  /\ Len(ex.calls) < MaxCalls
  /\ ExecStep(executeCodeCall(ex, code, language, FALSE), "ExecCall")

(* The user presses Run; the button is disabled while isRunning *)
ClickRun(code) ==
  /\ ~ex.blocked
  /\ ~cl[Me].isRunning
  /\ Len(ex.calls) < MaxCalls
  /\ LET s == Begin(cl[Me])
         e2 == executeCodeCall(ex, code, s.language, TRUE)
     IN /\ ex' = e2
        /\ cl' = [cl EXCEPT ![Me] = Render(s, pageAfter(handleRun(s), ex, e2))]
  /\ step' = "ClickRun"
  /\ UNCHANGED <<syncAux, nEdits, chan, rosterVars, delivered, lastMove,
                 langVars, runIn, runOut, nOps, hook, deco>>

LoadSucceeds ==
  /\ ~ex.blocked
  /\ ex.pyodideLoading = "pending"
  /\ ExecStep(loadResolved(ex), "LoadSucceeds")

LoadFails ==
  /\ ~ex.blocked
  /\ ex.pyodideLoading = "pending"
  /\ ExecStep(loadRejected(ex), "LoadFails")

ExecWake(i) ==
  /\ ~ex.blocked
  /\ ex.calls[i].cs = "suspended"
  /\ ex.calls[i].wake = 0
  /\ ExecStep(wake(ex, i), "ExecWake")

ExecTimeout(i) ==
  /\ ~ex.blocked
  /\ ex.calls[i].ps = "racing"
  /\ ex.calls[i].timer = 0
  /\ ExecStep(raceTimeout(ex, i), "ExecTimeout")

ExecRems(e) ==
  {e.calls[i].timer : i \in {j \in 1..Len(e.calls) : e.calls[j].timer >= 0}}
  \cup
  {e.calls[i].wake : i \in {j \in 1..Len(e.calls) : e.calls[j].wake >= 0}}

passTime(c, d) ==
  [c EXCEPT !.timer = IF @ >= 0 THEN @ - d ELSE @,
            !.wake = IF @ >= 0 THEN @ - d ELSE @,
            !.elapsed = IF c.ps = "racing" THEN Min(@ + d, ElapsedCap) ELSE @]

(* Time passes up to the next timer of the executor *)
ExecAdvance ==
  /\ ~ex.blocked
  /\ ExecRems(ex) # {}
  /\ LET d == CHOOSE r \in ExecRems(ex) : \A q \in ExecRems(ex) : r <= q
     IN /\ d > 0
        /\ ExecStep([ex EXCEPT !.calls =
                       [i \in 1..Len(ex.calls) |-> passTime(ex.calls[i], d)]],
                    "ExecAdvance")

(* Time passes while a loop holds the thread: no timer callback runs *)
ExecStall ==
  /\ ex.blocked
  /\ \E i \in Outstanding(ex) : ex.calls[i].elapsed < ElapsedCap
  /\ ExecStep([ex EXCEPT !.calls =
                 [i \in 1..Len(ex.calls) |->
                    [ex.calls[i] EXCEPT !.elapsed =
                       IF ex.calls[i].ps = "racing"
                       THEN Min(@ + Delay("short"), ElapsedCap) ELSE @]]],
              "ExecStall")

InitExec ==
  /\ \E language \in Languages :
       cl = [c \in Clients |->
               [InitClient(c) EXCEPT !.language = language,
                                     !.code = getDefaultCode(language),
                                     !.editorDoc = getDefaultCode(language)]]
  /\ InitRest

ExecTime ==
  \/ LoadSucceeds
  \/ LoadFails
  \/ \E i \in 1..Len(ex.calls) : ExecWake(i)
  \/ \E i \in 1..Len(ex.calls) : ExecTimeout(i)
  \/ ExecAdvance
  \/ ExecStall

NextExec ==
  \/ \E code \in ExecPrograms, language \in Languages :
       ExecCall(code, language)
  \/ ExecTime

SpecExec == InitExec /\ [][NextExec]_vars

NextRunControl ==
  \/ \E code \in ExecPrograms : ClickRun(code)
  \/ ExecTime

SpecRunControl == InitExec /\ [][NextRunControl]_vars

(* C22: every call is resolved once EXECUTION_TIMEOUT_MS have passed since *)
(* its code started: no call is still outstanding after that time.         *)
C22_ResolvedWithinTimeout ==
  \A i \in Outstanding(ex) : ex.calls[i].elapsed <= EXECUTION_TIMEOUT_MS

(* C24: the loading callback is invoked once for each initialization of   *)
(* the interpreter that is started, however many python calls are made     *)
(* while it is in flight, and not at all by calls made after it completed. *)
C24_LoadingCallbackOncePerColdStart == ex.loadingCalls = ex.inits

(* C25: the output of a call holds only text printed by that call's own    *)
(* code, for both evaluators, also when the code of an earlier call that   *)
(* timed out is still running.                                             *)
C25_OwnOutputOnly ==
  \A i \in 1..Len(ex.calls) : ex.calls[i].from \subseteq {i}

(* C26: the run control is disabled (isRunning) exactly while a call made  *)
(* by the page is outstanding, at most one such call is outstanding, and   *)
(* after the call settled, with a result, with a result that has an error  *)
(* or with a rejection, isRunning is false again.                          *)
C26_RunControl ==
  /\ cl[Me].isRunning <=> (PageCalls(ex) \cap Outstanding(ex) # {})
  /\ Cardinality(PageCalls(ex) \cap Outstanding(ex)) <= 1

(* C26 witness: the page's second call rejected, after a first call that   *)
(* had settled; the failure text is shown and the control is enabled.      *)
C26_Witness ==
  /\ Len(ex.calls) = 2
  /\ ex.calls[2].byPage
  /\ ex.calls[2].result.state = "rejected"
  /\ cl[Me].output = "Execution failed. Please try again."
  /\ ~cl[Me].isRunning

----------------------------------------------------------------------------
(* The inbound presence specification: client Me in a room of three        *)
(* participants receives join, leave, cursor-update and participant-typing *)
(* messages in any order.  A message names its sender by display name,     *)
(* which any participant may share with another; the server answers the    *)
(* joinRoom call made on a join with a roster that holds the caller.       *)

InboundPresence(m) ==
  /\ nMsgs < MaxInbound
  /\ LET s == Begin(cl[Me])
         r == Render(s, wsOnMessage(s, Payload("object", m)))
     IN /\ cl' = [cl EXCEPT ![Me] = r]
        /\ httpReq' = httpReq + r.joinCalls
        /\ departed' = IF m.type = "leave" THEN departed \cup {m.username}
                       ELSE departed
  /\ nMsgs' = nMsgs + 1
  /\ step' = m.type
  /\ delivered' = m
  /\ UNCHANGED ctlVars
  /\ UNCHANGED <<sinceEdit, sinceSend, lastEdit, lastSentCode, nEdits, chan,
                 serverRoster, wsQueue, httpResp, lastCursor, cursorCount,
                 joinedSeen, nPresence>>

InboundJoin == \E name \in Names : InboundPresence(JoinMsg(name))

InboundLeave == \E name \in Names : InboundPresence(LeaveMsg(name))

InboundPeerCursor ==
  \E id \in Ids, position \in Positions :
    InboundPresence(CursorUpdateMsg(id, Name(id), position))

InboundTyping ==
  \E name \in Names, isTyping \in BOOLEAN :
    InboundPresence(ParticipantTypingMsg(name, isTyping))

(* The response of a joinRoom call made on a join arrives: the roster of   *)
(* the participants then in the room, client Me among them.                *)
JoinAnswered ==
  /\ httpReq > 0
  /\ httpReq' = httpReq - 1
  /\ \E others \in SUBSET (Ids \ {Me}) :
       LET ids == SelectSeq([i \in 1..Cardinality(Ids) |-> i],
                            LAMBDA id : id \in {Me} \cup others)
           res == [success |-> TRUE,
                   participants |-> [i \in 1..Len(ids) |->
                                       Participant(ids[i], Me)]]
           s == Begin(cl[Me])
       IN cl' = [cl EXCEPT ![Me] = Render(s, onJoinResponse(s, res))]
  /\ step' = "JoinResponse"
  /\ UNCHANGED ctlVars
  /\ UNCHANGED <<syncAux, nEdits, chan, serverRoster, wsQueue, httpResp,
                 lastCursor, cursorCount, joinedSeen, departed, nPresence,
                 delivered>>

NextPresence ==
  \/ InboundJoin
  \/ InboundLeave
  \/ InboundPeerCursor
  \/ InboundTyping
  \/ JoinAnswered

SpecPresence == InitInbound /\ [][NextPresence]_vars

(* C27: after the room has loaded, whatever join, leave,                   *)
(* participant-typing and cursor-update messages arrive, the local roster  *)
(* holds exactly one participant with isCurrentUser = true.                *)
C27_OneCurrentUser == Len(CurrentUsers(cl[Me].participants)) = 1

(* C30: after any sequence of join, leave and cursor-update messages,      *)
(* also a cursor-update of a participant that arrives after its leave,     *)
(* every entry of the cursor map belongs to a participant that is in the   *)
(* roster.                                                                 *)
C30_CursorsOfRosterOnly ==
  \A i \in 1..Len(cl[Me].remoteCursors) :
    \E k \in 1..Len(cl[Me].participants) :
      cl[Me].participants[k].id = cl[Me].remoteCursors[i].oderId

----------------------------------------------------------------------------
(* The connection specification: the page renders useWebSocket with its    *)
(* roomId and its username (empty until it is read from storage), renders  *)
(* it again with other arguments, and unmounts; sockets open and close.    *)

InitHook ==
  /\ cl = [c \in Clients |-> InitClient(c)]
  /\ InitShared
  /\ \E roomId \in RoomIds, username \in Usernames :
       hook = wsMount(roomId, username)

HookStep(h2, name) ==
  /\ hook' = h2
  /\ step' = name
  /\ UNCHANGED <<cl, syncAux, nEdits, chan, rosterVars, delivered, lastMove,
                 langVars, runVars, nOps, deco>>

HookRender(roomId, username) ==
  /\ hook.mounted
  /\ Len(hook.sockets) < MaxSockets
  /\ <<roomId, username>> # <<hook.roomId, hook.username>>
  /\ HookStep(useWebSocket(hook, roomId, username), "HookRender")

HookUnmount ==
  /\ hook.mounted
  /\ HookStep(wsUnmount(hook), "HookUnmount")

SocketOpens(k) ==
  /\ hook.sockets[k].readyState = "CONNECTING"
  /\ HookStep(hookOnOpen(hook, k), "SocketOpens")

SocketCloses(k) ==
  /\ hook.sockets[k].readyState # "CLOSED"
  /\ HookStep(hookOnClose(hook, k), "SocketCloses")

NextHook ==
  \/ \E roomId \in RoomIds, username \in Usernames :
       HookRender(roomId, username)
  \/ HookUnmount
  \/ \E k \in 1..Len(hook.sockets) : SocketOpens(k)
  \/ \E k \in 1..Len(hook.sockets) : SocketCloses(k)

SpecHook == InitHook /\ [][NextHook]_vars

LiveSockets ==
  {k \in 1..Len(hook.sockets) :
     hook.sockets[k].readyState \in {"CONNECTING", "OPEN"}}

(* C28: at most one socket of the hook is live (connecting or open); a     *)
(* live socket was created for the current roomId and username, both       *)
(* non-empty, of a mounted hook; a socket is created for every non-empty   *)
(* pair the hook is rendered with; and a socket is created only after the  *)
(* one before it was closed.                                               *)
C28_OneLiveConnection ==
  /\ Cardinality(LiveSockets) <= 1
  /\ \A k \in LiveSockets :
       /\ hook.mounted
       /\ k = hook.socketRef
       /\ k = Len(hook.sockets)
       /\ hook.sockets[k].roomId = hook.roomId
       /\ hook.sockets[k].username = hook.username
  /\ \A k \in 1..Len(hook.sockets) :
       hook.sockets[k].roomId # "" /\ hook.sockets[k].username # ""
  /\ (hook.mounted /\ hook.roomId # "" /\ hook.username # "") =>
       /\ hook.socketRef = Len(hook.sockets)
       /\ hook.socketRef > 0
       /\ hook.sockets[hook.socketRef].roomId = hook.roomId
       /\ hook.sockets[hook.socketRef].username = hook.username

(* C28 witness: the hook was rendered with another username while its      *)
(* socket was open; that socket is closing and the replacement is live.    *)
C28_Witness ==
  /\ step = "HookRender"
  /\ Len(hook.sockets) = 2
  /\ hook.sockets[1].readyState = "CLOSING"
  /\ hook.sockets[2].readyState = "CONNECTING"
  /\ hook.sockets[1].username # hook.sockets[2].username
  /\ hook.isConnected

----------------------------------------------------------------------------
(* The timers specification: the user of client Me edits, moves the cursor *)
(* and resets the document at any moment between and during the windows of *)
(* the four timers.                                                        *)

NextTimers ==
  \/ \E text \in Texts : UserEdit(text)
  \/ \E position \in Positions : CursorMove(position)
  \/ Reset
  \/ AdvanceShort
  \/ AdvanceInCursorWindow
  \/ AdvanceToNext
  \/ FireTyping
  \/ FireCodeThrottle
  \/ FirePersist
  \/ FireCursor

SpecTimers == Init /\ [][NextTimers]_vars

(* C29: of each kind (typing timeout, code throttle, persistence debounce, *)
(* cursor throttle) at most one timer is pending, and it is the one its    *)
(* ref holds: a timer is created only when the one before it of its kind   *)
(* has fired or has been cleared.                                          *)
C29_TimersNeverOverlap ==
  /\ \A kind \in TimerKinds :
       Cardinality(PendingTimers(cl[Me], kind)) <= 1
  /\ \A t \in cl[Me].timers : t.cur /\ cl[Me].refs[t.kind] = "set"

(* C29 witness: a second edit and a second cursor move were made while the *)
(* timers of the first were pending; one timer of each kind is pending and *)
(* the typing timeout and the debounce have been restarted.                *)
C29_Witness ==
  /\ step = "UserEdit"
  /\ nEdits[Me] >= 2
  /\ lastMove.inWindow >= 2
  /\ \A kind \in TimerKinds : Cardinality(PendingTimers(cl[Me], kind)) = 1
  /\ HasTimer(cl[Me], "typing", TYPING_TIMEOUT_MS)
  /\ HasTimer(cl[Me], "persist", CODE_PERSIST_DEBOUNCE_MS)
  /\ ~HasTimer(cl[Me], "code", CODE_WS_THROTTLE_MS)
  /\ ~HasTimer(cl[Me], "cursor", CURSOR_WS_THROTTLE_MS)

PythonCalls(e) == {i \in 1..Len(e.calls) : e.calls[i].language = "python"}

(* C31: whatever python calls are made and however they interleave with    *)
(* the load, the initialization of the interpreter is started at most      *)
(* once; every call that awaits the load awaits that one initialization;   *)
(* and a call made once the interpreter is there starts no initialization, *)
(* awaits none and leaves the interpreter in place.                        *)
C31_InitOnce ==
  [][/\ ex'.inits <= 1
     /\ (\E i \in PythonCalls(ex') : ex'.calls[i].ps = "loading") =>
          ex'.inits = 1 /\ ex'.pyodideLoading = "pending"
     /\ ex.pyodide = "ready" =>
          /\ ex'.pyodide = "ready"
          /\ ex'.inits = ex.inits
          /\ \A i \in PythonCalls(ex') : ex'.calls[i].ps # "loading"]_vars

(* C31 witness: two python calls were made while the interpreter was       *)
(* loading; one initialization served both and both have their result.     *)
C31_Witness ==
  /\ Len(ex.calls) = 2
  /\ PythonCalls(ex) = {1, 2}
  /\ ex.loadingCalls = 2
  /\ ex.inits = 1
  /\ ex.pyodide = "ready"
  /\ \A i \in {1, 2} : ex.calls[i].result = Result("hi", NoText)

(* C39: a python call made after an initialization of the interpreter      *)
(* failed starts a new initialization instead of receiving the failure of  *)
(* the earlier one.                                                        *)
C39_FailedInitRecoverable ==
  [][(/\ step' = "ExecCall"
      /\ ex.pyodideLoading = "rejected"
      /\ ex'.calls[Len(ex'.calls)].language = "python") =>
       /\ ex'.inits = ex.inits + 1
       /\ ex'.calls[Len(ex'.calls)].result # pyCatch(LoadFailedText)]_vars

----------------------------------------------------------------------------
(* code-editor: remoteCursorsField.update on a setRemoteCursors effect.    *)
(* A decoration is a widget (the caret) or a mark (the selection) with its *)
(* range; the offsets of a cursor are any integers around the document.    *)

MaxDocLength == 3
Offsets == -1..(MaxDocLength + 1)
DocLengths == 0..MaxDocLength

Max(a, b) == IF a > b THEN a ELSE b

(* Variant of Clamp without the lower limit *)
Clamp_noLowerLimit(x, docLength) == Min(x, docLength)

(* Math.min(Math.max(0, x), docLength) *)
Clamp(x, docLength) == Min(Max(0, x), docLength)

DecorationsOf(cursor, docLength) ==
  LET clampedPos == Clamp(cursor.position, docLength)
      clampedStart == Clamp(cursor.selectionStart, docLength)
      clampedEnd == Clamp(cursor.selectionEnd, docLength)
      widget == [kind |-> "widget", from |-> clampedPos, to |-> clampedPos]
  IN IF clampedStart # clampedEnd
     THEN <<widget, [kind |-> "mark",
                     from |-> Min(clampedStart, clampedEnd),
                     to |-> Max(clampedStart, clampedEnd)]>>
     ELSE <<widget>>

(* decorationList.sort((a, b) => a.from - b.from || a.to - b.to) *)
remoteCursorsFieldUpdate(cursor, docLength) ==
  SortSeq(DecorationsOf(cursor, docLength),
          LAMBDA a, b : a.from < b.from \/ (a.from = b.from /\ a.to < b.to))

(* The cursor effect of the editor dispatches setRemoteCursors *)
SetRemoteCursors(cursor, docLength) ==
  /\ deco' = [cursor |-> cursor, docLength |-> docLength,
              decorations |-> remoteCursorsFieldUpdate(cursor, docLength)]
  /\ step' = "SetRemoteCursors"
  /\ UNCHANGED <<cl, syncAux, nEdits, chan, rosterVars, delivered, lastMove,
                 langVars, runVars, nOps, hook>>

NextDecorations ==
  \E position \in Offsets, selectionStart \in Offsets,
     selectionEnd \in Offsets, docLength \in DocLengths :
    SetRemoteCursors([position |-> position,
                      selectionStart |-> selectionStart,
                      selectionEnd |-> selectionEnd], docLength)

SpecDecorations == Init /\ [][NextDecorations]_vars

Marks == SelectSeq(deco.decorations, LAMBDA d : d.kind = "mark")
Widgets == SelectSeq(deco.decorations, LAMBDA d : d.kind = "widget")
Inside(x) == x >= 0 /\ x <= deco.docLength

(* C32: whatever offsets a remote cursor carries, every rendered range     *)
(* lies in [0, document length] with from <= to; there is one caret, at    *)
(* the position when that is inside the document and at the nearer end     *)
(* otherwise; and a selection mark is rendered exactly when the selection, *)
(* in either direction, covers a part of the document, and then over that  *)
(* part.                                                                   *)
C32_OffsetsClamped ==
  step = "SetRemoteCursors" =>
    /\ \A i \in 1..Len(deco.decorations) :
         /\ Inside(deco.decorations[i].from)
         /\ Inside(deco.decorations[i].to)
         /\ deco.decorations[i].from <= deco.decorations[i].to
    /\ Len(Widgets) = 1
    /\ Widgets[1].from = Widgets[1].to
    /\ Inside(deco.cursor.position) => Widgets[1].from = deco.cursor.position
    /\ deco.cursor.position < 0 => Widgets[1].from = 0
    /\ deco.cursor.position > deco.docLength =>
         Widgets[1].from = deco.docLength
    /\ Len(Marks) <= 1
    /\ \A i \in 1..Len(Marks) : Marks[i].from < Marks[i].to
    /\ LET lo == Min(deco.cursor.selectionStart, deco.cursor.selectionEnd)
           hi == Max(deco.cursor.selectionStart, deco.cursor.selectionEnd)
           first == IF lo < 0 THEN 0 ELSE lo
           last == IF hi > deco.docLength THEN deco.docLength ELSE hi
       IN /\ Len(Marks) = 1 <=> first < last
          /\ \A i \in 1..Len(Marks) :
               Marks[i].from = first /\ Marks[i].to = last

(* C32 witness: the selection runs backwards from beyond the end of the    *)
(* document to a negative offset and the caret is beyond the end; the mark *)
(* covers the whole document and the caret sits at its end.                *)
C32_Witness ==
  /\ step = "SetRemoteCursors"
  /\ deco.docLength > 0
  /\ deco.cursor.position > deco.docLength
  /\ deco.cursor.selectionStart > deco.docLength
  /\ deco.cursor.selectionEnd < 0
  /\ deco.decorations =
       <<[kind |-> "mark", from |-> 0, to |-> deco.docLength],
         [kind |-> "widget", from |-> deco.docLength,
          to |-> deco.docLength]>>

(* The document is the template a reset has put there: no edit was made   *)
(* since the reset.                                                        *)
ResetStands ==
  /\ nOps["reset"] > 0
  /\ cl[Me].code = getDefaultCode(cl[Me].language)

(* C33: after a reset and until the next local edit, every code-update     *)
(* this client sends and every text it gives to updateRoomCode is the      *)
(* default template, also when a throttle flush or a persistence debounce  *)
(* of an earlier edit was pending at the reset.                            *)
C33_ResetNotOverridden ==
  ResetStands =>
    /\ \A i \in SendsOfType(cl[Me], {"code-update"}) :
         cl[Me].sent[i].code = getDefaultCode(cl[Me].language)
    /\ \A i \in 1..Len(cl[Me].persisted) :
         cl[Me].persisted[i] = getDefaultCode(cl[Me].language)

NothingStranded(s) ==
  /\ s.pendingCodeRef # NoText => PendingTimers(s, "code") # {}
  /\ s.pendingCursorRef # NoMsg => PendingTimers(s, "cursor") # {}

(* C34: whenever a pending code value is held a code throttle timer is     *)
(* pending, and whenever a pending cursor message is held a cursor         *)
(* throttle timer is pending; a throttle timer that fires leaves its       *)
(* pending value and its timer handle empty.                               *)
C34_NothingStranded ==
  [][/\ NothingStranded(cl'[Me])
     /\ step' = "FireCodeThrottle" =>
          /\ cl'[Me].pendingCodeRef = NoText
          /\ cl'[Me].refs["code"] = "null"
          /\ PendingTimers(cl'[Me], "code") = {}
     /\ step' = "FireCursor" =>
          /\ cl'[Me].pendingCursorRef = NoMsg
          /\ cl'[Me].refs["cursor"] = "null"
          /\ PendingTimers(cl'[Me], "cursor") = {}]_vars

(* C34 witness: the code throttle timer fired and sent the value that was  *)
(* pending, while a cursor message is still pending with its timer.        *)
C34_Witness ==
  /\ step = "FireCodeThrottle"
  /\ SendsOfType(cl[Me], {"code-update"}) # {}
  /\ cl[Me].pendingCodeRef = NoText
  /\ cl[Me].refs["code"] = "null"
  /\ cl[Me].pendingCursorRef # NoMsg
  /\ PendingTimers(cl[Me], "cursor") # {}

(* C35: the local typing flag is true exactly when a typing inactivity    *)
(* timer is pending, so that every typing-start is followed by the         *)
(* typing-stop of that timer and no typing-stop is sent while the flag is  *)
(* false.                                                                  *)
C35_TypingFlagMatchesTimer ==
  cl[Me].isTyping <=> PendingTimers(cl[Me], "typing") # {}

----------------------------------------------------------------------------
(* The dispatch specification: messages arrive on the open socket of       *)
(* client Me; each arrival sets the lastMessage state of the hook, and the *)
(* page renders, and runs its effect on lastMessage, after one arrival or  *)
(* after several.                                                          *)

WellFormed ==
  {CodeUpdateMsg(text) : text \in Texts}
  \cup {CursorUpdateMsg(2, Name(2), position) : position \in Positions}
  \cup {LeaveMsg(Name(3)), ParticipantTypingMsg(Name(2), TRUE)}

MessageArrives(payload) ==
  /\ Len(hook.received) < MaxInbound
  /\ hook' = hookOnMessage(hook, payload)
  /\ step' = "MessageArrives"
  /\ UNCHANGED <<cl, syncAux, nEdits, chan, rosterVars, delivered, lastMove,
                 langVars, runVars, nOps, deco>>

RenderMessage ==
  /\ hook.effectDue
  /\ LET s == Begin(cl[Me])
     IN cl' = [cl EXCEPT ![Me] = Render(s, messageEffect(s, hook.lastMessage))]
  /\ hook' = [hook EXCEPT !.effectDue = FALSE,
                          !.handled = Append(@, hook.lastMessage)]
  /\ delivered' = hook.lastMessage
  /\ step' = "RenderMessage"
  /\ UNCHANGED <<syncAux, nEdits, chan, rosterVars, lastMove, langVars,
                 runVars, nOps, deco>>

NextDispatch ==
  \/ \E m \in WellFormed : MessageArrives(Payload("object", m))
  \/ MessageArrives(Payload("unparseable", NoMsg))
  \/ RenderMessage

SpecDispatch == InitInbound /\ [][NextDispatch]_vars

(* C36: every well-formed message received is given to the message effect *)
(* of the page exactly once and in the order of arrival, also when several *)
(* messages arrive before the page has handled the one before: the         *)
(* messages handled are the messages received, up to the one whose         *)
(* handling is due.                                                        *)
C36_DispatchedOnceInOrder ==
  hook.handled = IF hook.effectDue
                 THEN SubSeq(hook.received, 1, Len(hook.received) - 1)
                 ELSE hook.received

----------------------------------------------------------------------------
(* The connected flag of the hook against its current socket. *)

Settled ==
  \A k \in 1..Len(hook.sockets) :
    hook.sockets[k].readyState \in {"OPEN", "CLOSED"}

CurrentSocketOpen ==
  /\ hook.socketRef > 0
  /\ hook.sockets[hook.socketRef].readyState = "OPEN"

(* C37: isConnected is true exactly when the current socket of the hook   *)
(* (socketRef.current) is open, also after the connection was torn down    *)
(* and established again and the close event of the old socket came after  *)
(* the open event of the new one; stated of the mounted hook once every    *)
(* open and close event of its sockets has been delivered.                 *)
C37_ConnectedIffCurrentOpen ==
  (hook.mounted /\ Settled) => (hook.isConnected <=> CurrentSocketOpen)

----------------------------------------------------------------------------
(* C38: when handleLanguageChange was invoked for a second language before *)
(* the updateRoomLanguage call of the first returned, then once both calls *)
(* have returned, in whichever order, the language state, the document     *)
(* text and the last language-update sent are of the same language: after  *)
(* the response that completes the last outstanding call and sends a       *)
(* language-update, that message names the language state and the text is  *)
(* that language's template.                                               *)
C38_LanguageChangesConverge ==
  (/\ step = "LanguageResponse"
   /\ langReq = {}
   /\ nOps["language"] >= 2
   /\ langResult.success) =>
    /\ langResult.language = cl[Me].language
    /\ cl[Me].code = getDefaultCode(cl[Me].language)
    /\ \A i \in SendsOfType(cl[Me], {"language-update"}) :
         cl[Me].sent[i].language = cl[Me].language

====
